---------------------------- MODULE Spec2Model ----------------------------
(***************************************************************************)
(* A model of tokio-tui's scrollback viewport engine                       *)
(* (src/src/widgets/scrollbox/scrollbox_widget.rs).                        *)
(*                                                                         *)
(* The widget is one record, w, whose fields are the fields of             *)
(* ScrollbackWidget.  Every method of the widget is an operator from a     *)
(* widget record to a widget record, composed the way the Rust methods     *)
(* call one another, so an action is the whole handler.  prev and op are   *)
(* history variables (a snapshot of the widget before the last operation,  *)
(* and that operation with its arguments); hist is the list of lines       *)
(* appended since the last clear.                                          *)
(*                                                                         *)
(* A character is a string; a line is a sequence of characters.  Instants  *)
(* are kept as the time elapsed since the instant was taken, in units of   *)
(* TimeUnitMs milliseconds.  None is <<>> and Some(v) is <<v>>.            *)
(***************************************************************************)
EXTENDS Integers, Sequences, FiniteSets, TLC

VARIABLES w, prev, op, hist

vars == <<w, prev, op, hist>>

(***************************************************************************)
(* Bounds of the model.                                                    *)
(***************************************************************************)
MaxCap == 2
MaxBatch == 3
MaxAppends == 4
MaxScroll == 3
UsizeBits == 16

(***************************************************************************)
(* Arithmetic of usize / u16 as the code uses it.                          *)
(***************************************************************************)
Min(a, b) == IF a <= b THEN a ELSE b

Max(a, b) == IF a >= b THEN a ELSE b

SatSub(a, b) == IF a >= b THEN a - b ELSE 0

RECURSIVE Digits(_)
Digits(n) == IF n < 10 THEN 1 ELSE 1 + Digits(n \div 10)

\* a let-binding: F applied to the value v
Bind(v, F(_)) == F(v)

None == <<>>

Some(v) == <<v>>

Last(s) == s[Len(s)]

Drop(s, n) == IF n >= Len(s) THEN <<>> ELSE SubSeq(s, n + 1, Len(s))

(***************************************************************************)
(* Rect and Rect::inner(Margin::new(1, 1)).                                *)
(***************************************************************************)
Rect(x, y, width, height) == [x |-> x, y |-> y, width |-> width, height |-> height]

Inner(area) ==
    IF area.width < 2 \/ area.height < 2
    THEN Rect(0, 0, 0, 0)
    ELSE Rect(area.x + 1, area.y + 1, area.width - 2, area.height - 2)

(***************************************************************************)
(* Selection.                                                              *)
(***************************************************************************)
Pos(line, char_idx) == [line |-> line, char_idx |-> char_idx]

SelectionNew == [start |-> Pos(0, 0), end |-> Pos(0, 0), active |-> FALSE]

start_selection(sel, line, char_idx) ==
    [start |-> Pos(line, char_idx), end |-> Pos(line, char_idx), active |-> TRUE]

update_end(sel, line, char_idx) ==
    IF sel.active THEN [sel EXCEPT !.end = Pos(line, char_idx)] ELSE sel

normalize(sel) ==
    IF sel.start.line < sel.end.line
       \/ (sel.start.line = sel.end.line /\ sel.start.char_idx <= sel.end.char_idx)
    THEN <<sel.start, sel.end>>
    ELSE <<sel.end, sel.start>>

contains_position_EndIncluded(sel, line, char_idx) ==
    IF ~sel.active THEN FALSE
    ELSE LET start == normalize(sel)[1]
             end == normalize(sel)[2]
         IN IF line < start.line \/ line > end.line THEN FALSE
            ELSE IF line = start.line /\ line = end.line
                 THEN char_idx >= start.char_idx /\ char_idx <= end.char_idx
            ELSE IF line = start.line THEN char_idx >= start.char_idx
            ELSE IF line = end.line THEN char_idx <= end.char_idx
            ELSE TRUE

contains_position(sel, line, char_idx) ==
    IF ~sel.active THEN FALSE
    ELSE LET start == normalize(sel)[1]
             end == normalize(sel)[2]
         IN IF line < start.line \/ line > end.line THEN FALSE
            ELSE IF line = start.line /\ line = end.line
                 THEN char_idx >= start.char_idx /\ char_idx < end.char_idx
            ELSE IF line = start.line THEN char_idx >= start.char_idx
            ELSE IF line = end.line THEN char_idx < end.char_idx
            ELSE TRUE

(***************************************************************************)
(* The widget after ScrollbackWidget::new(title, capacity).wrap_indent(i). *)
(***************************************************************************)
INITIAL_WIDTH == 80

\* usize is modelled UsizeBits wide
USIZE_MAX == 2 ^ UsizeBits - 1

NewWidget(capacity, indent) ==
    [ scrollbar_drag |-> <<"None", 0>>,
      buffer |-> <<>>,
      line_capacity |-> capacity,
      lengths |-> <<>>,
      max_line_width |-> 0,
      wrap_lines |-> TRUE,
      wrap_indent |-> indent,
      wrapped_lines |-> <<>>,
      wrapped_lines_width |-> 0,
      vertical_offset |-> 0,
      horizontal_offset |-> 0,
      auto_scroll |-> TRUE,
      selection |-> SelectionNew,
      mouse_is_down |-> FALSE,
      cursor_state |-> "Default",
      last_mouse_pos |-> None,
      redraw_requested |-> TRUE,
      is_focused |-> FALSE,
      show_line_numbers |-> TRUE,
      dev_mode |-> FALSE,
      last_area |-> Rect(0, 0, 1, 1),
      inner_width |-> INITIAL_WIDTH,
      inner_height |-> 1,
      info_text |-> <<"Wrap", "", "", <<"Auto", 0>> >>,
      waiting_for_g |-> FALSE,
      search_mode |-> "Closed",
      search_input |-> [text |-> <<>>, cursor_position |-> 0, is_focused |-> FALSE],
      search_term |-> <<>>,
      search_matches |-> <<>>,
      current_match |-> 0,
      drag_scroll_timer |-> None,
      drag_direction |-> "None",
      last_mouse_in_bounds |-> TRUE,
      overflow_checks |-> TRUE,
      panicked |-> FALSE ]

(***************************************************************************)
(* Convenience helpers and the scroll position.                            *)
(***************************************************************************)
request_redraw(s) == [s EXCEPT !.redraw_requested = TRUE]

search_is_active(s) == s.search_mode # "Closed"

line_count(s) == IF s.wrap_lines THEN Len(s.wrapped_lines) ELSE Len(s.buffer)

max_scroll_position(s) == SatSub(line_count(s), s.inner_height)

lines_from_bottom(s) == SatSub(line_count(s), s.vertical_offset + s.inner_height)

\* info_text as the list of its parts; an absent part is "".
StatusText(s) ==
    << IF s.wrap_lines THEN "Wrap" ELSE "Clip",
       IF search_is_active(s)
       THEN (IF s.search_term = <<>> THEN "Search" ELSE "Filtering")
       ELSE "",
       IF s.selection.active THEN "Select" ELSE "",
       IF s.auto_scroll THEN <<"Auto", 0>>
       ELSE IF lines_from_bottom(s) > 0 THEN <<"+", lines_from_bottom(s)>>
       ELSE <<"", 0>> >>

recalculate_status(s) ==
    IF StatusText(s) # s.info_text
    THEN request_redraw([s EXCEPT !.info_text = StatusText(s)])
    ELSE s

set_vertical_offset(s, vertical_offset) ==
    IF vertical_offset # s.vertical_offset
    THEN request_redraw(recalculate_status([s EXCEPT !.vertical_offset = vertical_offset]))
    ELSE s

set_auto_scroll(s, enable) ==
    IF s.auto_scroll # enable
    THEN LET s1 == IF ~enable THEN set_vertical_offset(s, max_scroll_position(s)) ELSE s
         IN request_redraw(recalculate_status([s1 EXCEPT !.auto_scroll = enable]))
    ELSE s

\* a variant that leaves the offset where it is
check_and_auto_scroll_Skipped(s) == s

check_and_auto_scroll(s) ==
    IF s.auto_scroll THEN set_vertical_offset(s, max_scroll_position(s)) ELSE s

(***************************************************************************)
(* Plain text of a line as a Rust String: the UTF-8 bytes of its chars.    *)
(* A byte is <<c, k>>, the k-th byte of character c.  The model's          *)
(* characters are ASCII except LowerEAcute / UpperEAcute (U+00E9, U+00C9), *)
(* which take two bytes each.                                              *)
(***************************************************************************)
LowerEAcute == "e'"

UpperEAcute == "E'"

Utf8Len(c) == IF c \in {LowerEAcute, UpperEAcute} THEN 2 ELSE 1

ToLower(c) ==
    CASE c = "F" -> "f"
      [] c = "O" -> "o"
      [] c = "A" -> "a"
      [] c = UpperEAcute -> LowerEAcute
      [] OTHER -> c

RECURSIVE Plain(_)
Plain(line) ==
    IF line = <<>> THEN <<>>
    ELSE [k \in 1..Utf8Len(line[1]) |-> <<line[1], k>>] \o Plain(Tail(line))

to_lowercase(bytes) == [i \in 1..Len(bytes) |-> <<ToLower(bytes[i][1]), bytes[i][2]>>]

\* str::is_char_boundary(index), index counted from 0
is_char_boundary(bytes, index) ==
    \/ index = 0
    \/ index = Len(bytes)
    \/ (index < Len(bytes) /\ bytes[index + 1][2] = 1)

\* str::find(needle): Some(byte offset of the first occurrence) or None
find(hay, needle) ==
    Bind({p \in 0..SatSub(Len(hay), Len(needle)) :
             /\ p + Len(needle) <= Len(hay)
             /\ SubSeq(hay, p + 1, p + Len(needle)) = needle},
         LAMBDA hits :
             IF hits = {} THEN None
             ELSE Some(CHOOSE p \in hits : \A q \in hits : p <= q))

\* The while-let loop of find_all_matches on one line: the offsets pushed, and
\* whether slicing plain[start..] panicked (start inside a character).
RECURSIVE ScanLine(_, _, _)
ScanLine(plain, term, start) ==
    IF ~is_char_boundary(plain, start)
    THEN [found |-> <<>>, panicked |-> TRUE]
    ELSE Bind(find(to_lowercase(Drop(plain, start)), to_lowercase(term)),
              LAMBDA hit :
                  IF hit = None THEN [found |-> <<>>, panicked |-> FALSE]
                  ELSE Bind(ScanLine(plain, term, start + hit[1] + 1),
                            LAMBDA rest :
                                [found |-> <<start + hit[1]>> \o rest.found,
                                 panicked |-> rest.panicked]))

RECURSIVE ScanLines(_, _, _)
ScanLines(buffer, term, idx) ==
    IF idx >= Len(buffer) THEN [found |-> <<>>, panicked |-> FALSE]
    ELSE Bind(ScanLine(Plain(buffer[idx + 1]), Plain(term), 0),
              LAMBDA one :
                  IF one.panicked
                  THEN [found |-> [i \in 1..Len(one.found) |-> <<idx, one.found[i]>>],
                        panicked |-> TRUE]
                  ELSE Bind(ScanLines(buffer, term, idx + 1),
                            LAMBDA rest :
                                [found |-> [i \in 1..Len(one.found) |->
                                               <<idx, one.found[i]>>] \o rest.found,
                                 panicked |-> rest.panicked]))

find_all_matches(s) ==
    Bind(ScanLines(s.buffer, s.search_term, 0),
         LAMBDA r :
             IF r.panicked
             THEN [s EXCEPT !.search_matches = r.found, !.panicked = TRUE]
             ELSE request_redraw([s EXCEPT !.search_matches = r.found]))

\* search_input.set_tl_text(..) only dirties the input widget
redraw_search_status(s) == request_redraw(s)

update_search_highlights(s) ==
    IF search_is_active(s) /\ s.search_term # <<>>
    THEN Bind(find_all_matches(s),
              LAMBDA s1 : IF s1.panicked THEN s1 ELSE redraw_search_status(s1))
    ELSE s

(***************************************************************************)
(* Buffer management.                                                      *)
(***************************************************************************)
update_max_width(s, max_width) ==
    IF max_width > s.max_line_width
    THEN request_redraw(
           [s EXCEPT !.max_line_width = max_width,
                     !.horizontal_offset = IF s.horizontal_offset > max_width
                                           THEN max_width ELSE s.horizontal_offset])
    ELSE s

\* push_back of one line, with its cached length
push_line(s, line) ==
    [update_max_width(s, Len(line)) EXCEPT !.lengths = Append(@, Len(line)),
                                           !.buffer = Append(@, line)]

RECURSIVE push_lines(_, _)
push_lines(s, lines) ==
    IF lines = <<>> THEN s ELSE push_lines(push_line(s, lines[1]), Tail(lines))

\* pop_front, n times (a pop on an empty deque does nothing)
pop_front(s, n) ==
    [s EXCEPT !.buffer = Drop(s.buffer, n), !.lengths = Drop(s.lengths, n)]

clear_selection_and_mouse(s) ==
    [s EXCEPT !.selection.active = FALSE, !.mouse_is_down = FALSE]

\* a variant that keeps the line indices of a surviving selection
update_selection_after_buffer_change_Unshifted(s, lines_removed) ==
    IF ~s.selection.active \/ lines_removed = 0 THEN s
    ELSE IF lines_removed >= Len(s.buffer) + lines_removed
            \/ s.selection.start.line < lines_removed
            \/ s.selection.end.line < lines_removed
            \/ s.selection.start.line >= Len(s.buffer)
            \/ s.selection.end.line >= Len(s.buffer)
    THEN clear_selection_and_mouse(s)
    ELSE [s EXCEPT
            !.selection.start.char_idx =
                Min(@, Len(s.buffer[s.selection.start.line + 1])),
            !.selection.end.char_idx =
                Min(@, Len(s.buffer[s.selection.end.line + 1]))]

update_selection_after_buffer_change_Reanchored(s, lines_removed) ==
    IF ~s.selection.active \/ lines_removed = 0 THEN s
    ELSE IF lines_removed >= Len(s.buffer) + lines_removed
    THEN clear_selection_and_mouse(s)
    ELSE Bind([s EXCEPT !.selection.start.line = SatSub(@, lines_removed),
                        !.selection.end.line = SatSub(@, lines_removed)],
              LAMBDA s2 :
                  IF s2.selection.start.line >= Len(s2.buffer)
                     \/ s2.selection.end.line >= Len(s2.buffer)
                  THEN clear_selection_and_mouse(s2)
                  ELSE [s2 EXCEPT
                          !.selection.start.char_idx =
                              Min(@, Len(s2.buffer[s2.selection.start.line + 1])),
                          !.selection.end.char_idx =
                              Min(@, Len(s2.buffer[s2.selection.end.line + 1]))])

update_selection_after_buffer_change(s, lines_removed) ==
    IF ~s.selection.active \/ lines_removed = 0 THEN s
    ELSE IF lines_removed >= Len(s.buffer) + lines_removed
    THEN clear_selection_and_mouse(s)
    ELSE Bind([s EXCEPT
                 !.selection.start.line =
                     IF @ < lines_removed THEN @ ELSE SatSub(@, lines_removed),
                 !.selection.end.line =
                     IF @ < lines_removed THEN @ ELSE SatSub(@, lines_removed)],
              LAMBDA s2 :
                  IF s.selection.start.line < lines_removed
                     \/ s.selection.end.line < lines_removed
                  THEN clear_selection_and_mouse(s2)
                  ELSE IF s2.selection.start.line >= Len(s2.buffer)
                          \/ s2.selection.end.line >= Len(s2.buffer)
                  THEN clear_selection_and_mouse(s2)
                  ELSE [s2 EXCEPT
                          !.selection.start.char_idx =
                              Min(@, Len(s2.buffer[s2.selection.start.line + 1])),
                          !.selection.end.char_idx =
                              Min(@, Len(s2.buffer[s2.selection.end.line + 1]))])

invalidate_after_buffer_change(s) == check_and_auto_scroll(request_redraw(s))

\* the tail shared by add_styled_line and add_styled_lines
after_buffer_change(s, lines_removed) ==
    Bind(update_search_highlights(update_selection_after_buffer_change(s, lines_removed)),
         LAMBDA s1 :
             IF s1.panicked THEN s1
             ELSE recalculate_status(invalidate_after_buffer_change(s1)))

add_styled_line(s, line) ==
    after_buffer_change(
        push_line(IF Len(s.buffer) >= s.line_capacity THEN pop_front(s, 1) ELSE s, line),
        IF Len(s.buffer) >= s.line_capacity THEN 1 ELSE 0)

add_styled_lines(s, parsed) ==
    IF parsed = <<>> THEN s
    ELSE IF Len(parsed) >= s.line_capacity
    THEN after_buffer_change(
             push_lines([s EXCEPT !.buffer = <<>>, !.lengths = <<>>],
                        Drop(parsed, Len(parsed) - s.line_capacity)),
             Len(s.buffer))
    ELSE Bind(SatSub(Len(s.buffer) + Len(parsed), s.line_capacity),
              LAMBDA lines_removed :
                  after_buffer_change(push_lines(pop_front(s, lines_removed), parsed),
                                      lines_removed))

\* clear without the reset of the search
clear_KeepsSearch(s) ==
    request_redraw(
      [set_auto_scroll(
         [s EXCEPT !.buffer = <<>>, !.lengths = <<>>, !.wrapped_lines = <<>>,
                   !.wrapped_lines_width = 0, !.max_line_width = 0,
                   !.vertical_offset = 0, !.horizontal_offset = 0], TRUE)
       EXCEPT !.selection.active = FALSE, !.mouse_is_down = FALSE])

clear(s) ==
    request_redraw(
      [set_auto_scroll(
         [s EXCEPT !.buffer = <<>>, !.lengths = <<>>, !.wrapped_lines = <<>>,
                   !.wrapped_lines_width = 0, !.max_line_width = 0,
                   !.vertical_offset = 0, !.horizontal_offset = 0], TRUE)
       EXCEPT !.search_term = <<>>, !.search_matches = <<>>, !.current_match = 0,
              !.selection.active = FALSE, !.mouse_is_down = FALSE])

(***************************************************************************)
(* Public scrolling API.                                                   *)
(***************************************************************************)
scroll_to_top(s) ==
    IF 0 # s.vertical_offset
    THEN set_auto_scroll(set_vertical_offset(s, 0), FALSE)
    ELSE s

scroll_to_bottom(s) ==
    IF max_scroll_position(s) # s.vertical_offset
    THEN set_auto_scroll(set_vertical_offset(s, max_scroll_position(s)), TRUE)
    ELSE s

scroll_up(s, offset) ==
    IF SatSub(s.vertical_offset, offset) # s.vertical_offset
    THEN set_auto_scroll(set_vertical_offset(s, SatSub(s.vertical_offset, offset)), FALSE)
    ELSE s

\* vertical_offset + offset is a plain usize addition: on overflow a build with
\* overflow checks panics and one without wraps around
scroll_down(s, offset) ==
    Bind(IF s.vertical_offset = max_scroll_position(s) /\ offset > 0
         THEN set_auto_scroll(s, TRUE) ELSE s,
         LAMBDA s1 :
             IF s1.vertical_offset + offset > USIZE_MAX /\ s.overflow_checks
             THEN [s1 EXCEPT !.panicked = TRUE]
             ELSE set_vertical_offset(
                      s1, Min((s1.vertical_offset + offset) % (USIZE_MAX + 1),
                              max_scroll_position(s))))

scroll_left(s, offset) ==
    request_redraw([s EXCEPT !.horizontal_offset = SatSub(@, offset)])

scroll_right(s, offset) ==
    request_redraw([s EXCEPT !.horizontal_offset = Min(@ + offset, s.max_line_width)])

(***************************************************************************)
(* Wrapping.                                                               *)
(***************************************************************************)
\* the position of the last space in line[start..end) plus one, or None
LastSpace(line, start, end) ==
    Bind({i \in start..(end - 1) : line[i + 1] = " "},
         LAMBDA spaces :
             IF spaces = {} THEN None
             ELSE Some(CHOOSE i \in spaces : \A j \in spaces : j <= i))

\* find_break with the character at the width limit taken into the scan
find_break_Inclusive(line, start, limit) ==
    IF start + limit >= Len(line) THEN Len(line)
    ELSE Bind(LastSpace(line, start, start + limit + 1),
              LAMBDA sp :
                  IF sp # None THEN sp[1] + 1
                  ELSE IF start = start + limit THEN start + 1 ELSE start + limit)

\* find_break without the step of one character when the limit is 0
find_break_Stuck(line, start, limit) ==
    IF start + limit >= Len(line) THEN Len(line)
    ELSE Bind(LastSpace(line, start, start + limit),
              LAMBDA sp : IF sp # None THEN sp[1] + 1 ELSE start + limit)

find_break(line, start, limit) ==
    IF start + limit >= Len(line) THEN Len(line)
    ELSE Bind(LastSpace(line, start, start + limit),
              LAMBDA sp :
                  IF sp # None THEN sp[1] + 1
                  ELSE IF start = start + limit THEN start + 1 ELSE start + limit)

\* the while loop of render_lines_wrapped: the continuation segments from pos
RECURSIVE RestSegments(_, _, _, _)
RestSegments(orig_idx, line, pos, rest_w) ==
    IF pos < Len(line)
    THEN Bind(find_break(line, pos, rest_w),
              LAMBDA end :
                  <<<<orig_idx, pos, end>>>> \o RestSegments(orig_idx, line, end, rest_w))
    ELSE <<>>

\* WrapLine without the row of an empty line
WrapLine_NoEmptyRow(orig_idx, line, content_w, wrap_indent) ==
    IF line = <<>> THEN <<>>
    ELSE Bind(find_break(line, 0, content_w),
              LAMBDA seg_end :
                  <<<<orig_idx, 0, seg_end>>>>
                  \o RestSegments(orig_idx, line, seg_end, SatSub(content_w, wrap_indent)))

WrapLine(orig_idx, line, content_w, wrap_indent) ==
    IF line = <<>> THEN <<<<orig_idx, 0, 0>>>>
    ELSE Bind(find_break(line, 0, content_w),
              LAMBDA seg_end :
                  <<<<orig_idx, 0, seg_end>>>>
                  \o RestSegments(orig_idx, line, seg_end, SatSub(content_w, wrap_indent)))

RECURSIVE WrapFrom(_, _, _, _)
WrapFrom(buffer, orig_idx, content_w, wrap_indent) ==
    IF orig_idx >= Len(buffer) THEN <<>>
    ELSE WrapLine(orig_idx, buffer[orig_idx + 1], content_w, wrap_indent)
         \o WrapFrom(buffer, orig_idx + 1, content_w, wrap_indent)

calculate_line_num_width(s, total_lines) ==
    IF s.show_line_numbers THEN Max(Min(Digits(total_lines), 4), 2) ELSE 0

\* the width the line-number gutter takes: ln_width + 1, or 0 without one
GutterWidth(ln_width) == IF ln_width > 0 THEN ln_width + 1 ELSE 0

\* whether the wrap table is stale for content width content_w
needs_recalc(s, content_w) ==
    \/ s.wrapped_lines_width # content_w
    \/ IF s.wrapped_lines # <<>>
       THEN Last(s.wrapped_lines)[1] + 1 # Len(s.buffer)
       ELSE s.buffer # <<>>

render_lines_wrapped(s, inner) ==
    Bind(SatSub(inner.width, GutterWidth(calculate_line_num_width(s, Len(s.buffer)))),
         LAMBDA content_w :
             IF content_w = 0 THEN s
             ELSE IF needs_recalc(s, content_w)
             THEN Bind([s EXCEPT
                          !.wrapped_lines = WrapFrom(s.buffer, 0, content_w, s.wrap_indent),
                          !.wrapped_lines_width = content_w],
                       LAMBDA s1 :
                           IF s1.auto_scroll
                           THEN set_vertical_offset(s1, max_scroll_position(s1))
                           ELSE s1)
             ELSE s)

set_wrap_indent(s, wrap_indent) ==
    IF s.wrap_indent # wrap_indent
    THEN request_redraw([s EXCEPT !.wrap_indent = wrap_indent, !.wrapped_lines_width = 0])
    ELSE s

set_wrap_lines(s, wrap_lines) ==
    IF s.wrap_lines # wrap_lines
    THEN Bind([s EXCEPT !.wrap_lines = wrap_lines],
              LAMBDA s1 :
                  recalculate_status(request_redraw(
                      [set_vertical_offset(
                           s1, Min(s1.vertical_offset, max_scroll_position(s1)))
                       EXCEPT !.wrapped_lines_width = 0])))
    ELSE s

(***************************************************************************)
(* Search.                                                                 *)
(***************************************************************************)
DivCeil(a, b) == (a + b - 1) \div b

RECURSIVE WrappedBefore(_, _)
WrappedBefore(s, line_idx) ==
    IF line_idx = 0 THEN 0
    ELSE WrappedBefore(s, line_idx - 1) + DivCeil(Len(s.buffer[line_idx]), s.inner_width)

jump_to_current_match(s) ==
    IF s.search_matches = <<>> \/ s.current_match >= Len(s.search_matches) THEN s
    ELSE Bind(s.search_matches[s.current_match + 1][1],
              LAMBDA line_idx :
                  IF s.wrap_lines /\ line_idx > 0
                     /\ (s.inner_width = 0 \/ line_idx > Len(s.buffer))
                  THEN [s EXCEPT !.panicked = TRUE]
                  ELSE request_redraw(
                         [set_vertical_offset(
                              s, IF s.wrap_lines THEN WrappedBefore(s, line_idx)
                                 ELSE line_idx)
                          EXCEPT !.auto_scroll = FALSE]))

jump_to_next_match(s) ==
    IF s.search_matches = <<>> THEN s
    ELSE jump_to_current_match(
           [s EXCEPT !.current_match = (s.current_match + 1) % Len(s.search_matches)])

jump_to_prev_match(s) ==
    IF s.search_matches = <<>> THEN s
    ELSE jump_to_current_match(
           [s EXCEPT !.current_match = IF s.current_match = 0
                                       THEN Len(s.search_matches) - 1
                                       ELSE s.current_match - 1])

\* update_search_term once find_all_matches has run
jump_to_first_match(s2) ==
    IF s2.panicked THEN s2
    ELSE Bind(IF s2.search_matches # <<>>
              THEN jump_to_current_match([s2 EXCEPT !.current_match = 0])
              ELSE s2,
              LAMBDA s3 : IF s3.panicked THEN s3 ELSE redraw_search_status(s3))

update_search_term(s) ==
    IF s.search_input.text = <<>>
    THEN redraw_search_status(
             [s EXCEPT !.search_term = <<>>, !.search_matches = <<>>, !.current_match = 0])
    ELSE jump_to_first_match(
             find_all_matches([s EXCEPT !.search_term = s.search_input.text]))

focus_search(s) ==
    request_redraw(recalculate_status(
        [s EXCEPT !.search_mode = "Input", !.search_input.is_focused = TRUE]))

open_search(s) ==
    request_redraw(focus_search(
        [s EXCEPT !.search_input.text = s.search_term,
                  !.search_input.cursor_position =
                      IF s.search_input.text # s.search_term
                      THEN Len(Plain(s.search_term)) ELSE @]))

unfocus_search(s) ==
    request_redraw(recalculate_status(
        [s EXCEPT !.search_mode = "Open", !.search_input.is_focused = FALSE]))

close_search(s) ==
    request_redraw(recalculate_status(
        [s EXCEPT !.search_mode = "Closed",
                  !.search_input = [text |-> <<>>, cursor_position |-> 0,
                                    is_focused |-> FALSE]]))

clear_search(s) ==
    close_search([s EXCEPT !.search_term = <<>>, !.search_matches = <<>>,
                           !.current_match = 0])

(***************************************************************************)
(* Screen geometry of the content area.                                    *)
(***************************************************************************)
\* inner.height less the two rows of the search box
ContentHeight(s) ==
    LET inner == Inner(s.last_area)
    IN IF search_is_active(s) /\ inner.height > 1 THEN inner.height - 2 ELSE inner.height

ContentStartX(s) ==
    Inner(s.last_area).x + GutterWidth(calculate_line_num_width(s, Len(s.buffer) + 1))

ContentEndX(s) == Inner(s.last_area).x + Inner(s.last_area).width

screen_to_buffer_position_wrapped(s, content_x, content_y) ==
    LET wrapped_line_idx == s.vertical_offset + content_y
    IN IF wrapped_line_idx >= Len(s.wrapped_lines) THEN None
       ELSE LET seg == s.wrapped_lines[wrapped_line_idx + 1]
                char_idx_in_segment == IF seg[2] > 0 THEN SatSub(content_x, s.wrap_indent)
                                       ELSE content_x
            IN Some(<<seg[1], Min(seg[2] + char_idx_in_segment, seg[3])>>)

screen_to_buffer_position_clipped_progressive(s, content_x, content_y) ==
    LET line_idx == s.vertical_offset + content_y
    IN IF line_idx >= Len(s.buffer) THEN None
       ELSE Some(<<line_idx, Min(s.horizontal_offset + content_x, Len(s.buffer[line_idx + 1]))>>)

screen_to_buffer_position(s, x, y) ==
    IF y < Inner(s.last_area).y \/ y >= Inner(s.last_area).y + ContentHeight(s) THEN None
    ELSE IF x < ContentStartX(s) THEN None
    ELSE IF s.wrap_lines
         THEN screen_to_buffer_position_wrapped(
                  s, x - ContentStartX(s), y - Inner(s.last_area).y)
         ELSE screen_to_buffer_position_clipped_progressive(
                  s, x - ContentStartX(s), y - Inner(s.last_area).y)

(***************************************************************************)
(* Drag-scroll controller.                                                 *)
(***************************************************************************)
DRAG_EDGE_MARGIN == 4

DRAG_SPEED_SLOW == 150

DRAG_SPEED_FAST == 50

DRAG_ACCEL_AFTER == 500

DRAG_VERTICAL_REPEAT == 2

DRAG_VERTICAL_RESUME == 3

DRAG_HORIZONTAL_REPEAT == 8

DRAG_HORIZONTAL_RESUME == 5

\* the length of one unit of model time, in milliseconds
TimeUnitMs == 50

\* elapsed times are kept up to the first unit past DRAG_ACCEL_AFTER
MaxElapsed == (DRAG_ACCEL_AFTER \div TimeUnitMs) + 1

\* the direction update_drag_scroll_state derives from the content bounds
DragZoneIn(x, y, content_start_x, content_end_x, content_start_y, content_end_y, margin) ==
       IF y < content_start_y
       THEN (IF x < content_start_x THEN "UpLeft"
             ELSE IF x >= content_end_x THEN "UpRight" ELSE "Up")
       ELSE IF y >= content_end_y
       THEN (IF x < content_start_x THEN "DownLeft"
             ELSE IF x >= content_end_x THEN "DownRight" ELSE "Down")
       ELSE IF x < content_start_x THEN "Left"
       ELSE IF x >= content_end_x THEN "Right"
       ELSE IF x >= content_start_x /\ x < content_start_x + margin THEN "Left"
       ELSE IF x >= content_end_x - margin /\ x < content_end_x THEN "Right"
       ELSE IF y >= content_start_y /\ y < content_start_y + margin THEN "Up"
       ELSE IF y >= content_end_y - margin /\ y < content_end_y THEN "Down"
       ELSE "None"

DragZone(s, x, y) ==
    DragZoneIn(x, y, ContentStartX(s), ContentEndX(s), Inner(s.last_area).y,
               Inner(s.last_area).y + ContentHeight(s), DRAG_EDGE_MARGIN)

update_drag_scroll_state(s, x, y) ==
    Bind(DragZone(s, x, y),
         LAMBDA new_direction :
             IF new_direction # s.drag_direction
             THEN [s EXCEPT !.drag_direction = new_direction,
                            !.drag_scroll_timer =
                                IF new_direction # "None" THEN Some(0) ELSE None]
             ELSE s)

is_drag_scrolling(s) == s.mouse_is_down /\ s.drag_direction # "None"

\* one scroll step of perform_drag_scroll in the controller's direction
DragStep(s, vertical_amount, horizontal_amount) ==
    Bind(IF s.drag_direction \in {"Up", "UpLeft", "UpRight"}
         THEN scroll_up(s, vertical_amount)
         ELSE IF s.drag_direction \in {"Down", "DownLeft", "DownRight"}
         THEN scroll_down(s, vertical_amount)
         ELSE s,
         LAMBDA s1 :
             IF s.wrap_lines THEN s1
             ELSE IF s.drag_direction \in {"Left", "UpLeft", "DownLeft"}
             THEN scroll_left(s1, horizontal_amount)
             ELSE IF s.drag_direction \in {"Right", "UpRight", "DownRight"}
             THEN scroll_right(s1, horizontal_amount)
             ELSE s1)

\* did_scroll of perform_drag_scroll: s is the widget before the step, s1 after
did_scroll(s, s1) ==
    CASE s.drag_direction \in {"Up", "Down"} ->
             s.vertical_offset # s1.vertical_offset
      [] s.drag_direction \in {"Left", "Right"} ->
             ~s.wrap_lines /\ s.horizontal_offset # s1.horizontal_offset
      [] OTHER ->
             \/ s.vertical_offset # s1.vertical_offset
             \/ s.horizontal_offset # s1.horizontal_offset

\* the timer's elapsed time in milliseconds
Elapsed(s) == s.drag_scroll_timer[1] * TimeUnitMs

perform_drag_scroll_Spinning(s) ==
    IF s.drag_direction = "None" \/ s.drag_scroll_timer = None THEN s
    ELSE IF Elapsed(s) < (IF Elapsed(s) > DRAG_ACCEL_AFTER
                          THEN DRAG_SPEED_FAST ELSE DRAG_SPEED_SLOW)
    THEN s
    ELSE DragStep([s EXCEPT !.drag_scroll_timer = Some(0)],
                  IF Elapsed(s) > DRAG_ACCEL_AFTER
                  THEN DRAG_VERTICAL_RESUME ELSE DRAG_VERTICAL_REPEAT,
                  IF Elapsed(s) > DRAG_ACCEL_AFTER
                  THEN DRAG_HORIZONTAL_RESUME ELSE DRAG_HORIZONTAL_REPEAT)

perform_drag_scroll(s) ==
    IF s.drag_direction = "None" \/ s.drag_scroll_timer = None THEN s
    ELSE IF Elapsed(s) < (IF Elapsed(s) > DRAG_ACCEL_AFTER
                          THEN DRAG_SPEED_FAST ELSE DRAG_SPEED_SLOW)
    THEN s
    ELSE Bind(DragStep([s EXCEPT !.drag_scroll_timer = Some(0)],
                       IF Elapsed(s) > DRAG_ACCEL_AFTER
                       THEN DRAG_VERTICAL_RESUME ELSE DRAG_VERTICAL_REPEAT,
                       IF Elapsed(s) > DRAG_ACCEL_AFTER
                       THEN DRAG_HORIZONTAL_RESUME ELSE DRAG_HORIZONTAL_REPEAT),
              LAMBDA s1 :
                  IF s1.panicked THEN s1
                  ELSE IF ~did_scroll(s, s1)
                  THEN [s1 EXCEPT !.drag_direction = "None", !.drag_scroll_timer = None]
                  ELSE s1)

(***************************************************************************)
(* Selection by mouse.                                                     *)
(***************************************************************************)
clear_selection(s) ==
    IF s.selection.active
    THEN request_redraw(recalculate_status(
             [s EXCEPT !.selection.active = FALSE, !.mouse_is_down = FALSE]))
    ELSE s

drag_scroll_to_char(s, line_idx, char_idx) ==
    IF s.wrap_lines \/ line_idx >= Len(s.buffer) THEN s
    ELSE IF char_idx >= Len(s.buffer[line_idx + 1]) THEN s
    ELSE LET visible_start == s.horizontal_offset
             visible_end == visible_start + s.inner_width
         IN IF char_idx < visible_start
            THEN request_redraw(
                   [s EXCEPT !.horizontal_offset = SatSub(char_idx, s.inner_width \div 4)])
            ELSE IF char_idx >= visible_end
            THEN request_redraw(
                   [s EXCEPT !.horizontal_offset =
                                Min(char_idx + s.inner_width \div 4, s.max_line_width)])
            ELSE s

\* the selection started at buffer position (line_idx, char_idx)
press_at(s, line_idx, char_idx) ==
    Bind(request_redraw(
             [recalculate_status(
                  [s EXCEPT !.selection = start_selection(@, line_idx, char_idx)])
              EXCEPT !.mouse_is_down = TRUE]),
         LAMBDA s2 :
             IF ~s2.wrap_lines THEN drag_scroll_to_char(s2, line_idx, char_idx) ELSE s2)

handle_mouse_press(s, x, y) ==
    Bind(screen_to_buffer_position(s, x, y),
         LAMBDA p : IF p = None THEN s ELSE press_at(s, p[1][1], p[1][2]))

handle_edge_selection(s, x, y) ==
    LET inner == Inner(s.last_area)
        line_idx == s.vertical_offset + (y - inner.y)
    IN IF y < inner.y \/ y >= inner.y + ContentHeight(s)
       THEN [s EXCEPT !.last_mouse_in_bounds = FALSE]
       ELSE IF x >= ContentEndX(s) /\ line_idx < Len(s.buffer)
               /\ ContentEndX(s) < ContentStartX(s)
       THEN [s EXCEPT !.panicked = TRUE]
       ELSE IF x >= ContentEndX(s) /\ line_idx < Len(s.buffer)
       THEN LET chars_beyond == (x - ContentEndX(s)) + 1
                visible_width == ContentEndX(s) - ContentStartX(s)
                target_char_idx == s.horizontal_offset + visible_width + chars_beyond
                final_char_idx == Min(target_char_idx, Len(s.buffer[line_idx + 1]))
            IN request_redraw(
                 [s EXCEPT !.selection = update_end(@, line_idx, final_char_idx),
                           !.last_mouse_in_bounds = FALSE])
       ELSE s

handle_mouse_drag(s, x, y) ==
    IF ~s.mouse_is_down THEN s
    ELSE Bind(update_drag_scroll_state(s, x, y),
              LAMBDA s1 :
                  Bind(screen_to_buffer_position(s1, x, y),
                       LAMBDA p :
                           IF p # None
                           THEN request_redraw(
                                  [s1 EXCEPT
                                     !.selection = update_end(@, p[1][1], p[1][2]),
                                     !.last_mouse_in_bounds = TRUE])
                           ELSE handle_edge_selection(s1, x, y)))

(***************************************************************************)
(* Copying the selection.                                                  *)
(***************************************************************************)
\* the (start_char, end_char) range get_selected_text takes from one line
SelectedRange(s, line_idx) ==
    LET start == normalize(s.selection)[1]
        end == normalize(s.selection)[2]
        line == s.buffer[line_idx + 1]
        visible_end == s.horizontal_offset + s.inner_width
    IN IF line_idx = start.line /\ line_idx = end.line
       THEN <<start.char_idx, Min(end.char_idx, Len(line))>>
       ELSE IF line_idx = start.line
       THEN (IF s.wrap_lines THEN <<start.char_idx, Len(line)>>
             ELSE IF Len(line) > visible_end \/ s.horizontal_offset > 0
             THEN <<start.char_idx, Len(line)>>
             ELSE <<start.char_idx, Min(Len(line), visible_end)>>)
       ELSE IF line_idx = end.line THEN <<0, Min(end.char_idx, Len(line))>>
       ELSE <<0, Len(line)>>

RECURSIVE SelectedTextFrom(_, _, _)
SelectedTextFrom(s, line_idx, result) ==
    IF line_idx > normalize(s.selection)[2].line \/ line_idx >= Len(s.buffer) THEN result
    ELSE LET r == SelectedRange(s, line_idx)
             line == s.buffer[line_idx + 1]
             sep == IF result # <<>> THEN <<"\n">> ELSE <<>>
             piece == IF r[1] < r[2] THEN SubSeq(line, r[1] + 1, Min(r[2], Len(line)))
                      ELSE <<>>
         IN SelectedTextFrom(s, line_idx + 1, result \o sep \o piece)

get_selected_text(s) ==
    IF ~s.selection.active THEN None
    ELSE LET result == SelectedTextFrom(s, normalize(s.selection)[1].line, <<>>)
         IN IF result = <<>> THEN None ELSE Some(result)

\* a variant that answers true for every active selection
copy_selection_AnyActive(s) == s.selection.active

copy_selection(s) == get_selected_text(s) # None

\* What copy_selection leaves in the platform clipboard.  platform says how
\* the clipboard behaves: "ok", "unavailable" (ClipboardContext::new() is Err)
\* or "write_fails" (set_contents is Err).
copy_selection_clipboard(s, platform, clipboard) ==
    IF get_selected_text(s) = None THEN clipboard
    ELSE IF platform = "ok" THEN get_selected_text(s)
    ELSE clipboard

\* the smallest start and the largest end of the selected ranges, line by line
RECURSIVE SelectionBounds(_, _, _)
SelectionBounds(s, line_idx, acc) ==
    IF line_idx > normalize(s.selection)[2].line \/ line_idx >= Len(s.buffer) THEN acc
    ELSE LET start == normalize(s.selection)[1]
             end == normalize(s.selection)[2]
             len == Len(s.buffer[line_idx + 1])
             r == IF line_idx = start.line /\ line_idx = end.line
                  THEN <<start.char_idx, end.char_idx>>
                  ELSE IF line_idx = start.line THEN <<start.char_idx, len>>
                  ELSE IF line_idx = end.line THEN <<0, end.char_idx>>
                  ELSE <<0, len>>
             min_char == IF acc = None THEN r[1] ELSE Min(acc[1][1], r[1])
             max_char == IF acc = None THEN r[2] ELSE Max(acc[1][2], r[2])
         IN SelectionBounds(s, line_idx + 1, Some(<<min_char, max_char>>))

drag_scroll_to_selection_bounds(s) ==
    IF ~s.selection.active \/ s.wrap_lines THEN s
    ELSE LET b == SelectionBounds(s, normalize(s.selection)[1].line, None)
         IN IF b = None THEN s
            ELSE LET min_char == b[1][1]
                     max_char == Max(0, b[1][2])
                     visible_start == s.horizontal_offset
                     visible_end == visible_start + s.inner_width
                     margin == SatSub(s.inner_width, max_char - min_char) \div 2
                 IN IF min_char < visible_start \/ max_char > visible_end
                    THEN (IF max_char < min_char THEN [s EXCEPT !.panicked = TRUE]
                          ELSE request_redraw(
                                 [s EXCEPT !.horizontal_offset =
                                     Min(SatSub(min_char, margin), s.max_line_width)]))
                    ELSE s

(***************************************************************************)
(* Scrollbars.                                                             *)
(***************************************************************************)
is_point_in_vertical_scrollbar(s, x, y) ==
    IF line_count(s) <= s.inner_height THEN FALSE
    ELSE LET area == s.last_area
         IN /\ x = SatSub(area.x + area.width, 1)
            /\ y >= area.y + 1
            /\ y < SatSub(area.y + area.height, 1)

is_point_in_horizontal_scrollbar(s, x, y) ==
    IF s.wrap_lines \/ s.max_line_width <= s.inner_width THEN FALSE
    ELSE LET area == s.last_area
         IN /\ y = SatSub(area.y + area.height, 1)
            /\ x >= area.x + 1
            /\ x < SatSub(area.x + area.width, 1)

\* (thumb_start, thumb_end) along a track that starts at origin + 1
ThumbPosition(origin, track_len, content_len, visible_len, offset) ==
    IF content_len <= visible_len \/ track_len = 0 THEN <<origin + 1, origin + 1>>
    ELSE LET thumb_size == Max(Min((track_len * visible_len) \div content_len, track_len), 1)
             scrollbar_range == SatSub(track_len, thumb_size)
             scroll_range == SatSub(content_len, visible_len)
             thumb_pos == IF scroll_range = 0 THEN 0
                          ELSE Min((offset * scrollbar_range) \div scroll_range,
                                   scrollbar_range)
         IN IF scrollbar_range = 0 THEN <<origin + 1, origin + 1 + thumb_size>>
            ELSE <<origin + 1 + thumb_pos, origin + 1 + thumb_pos + thumb_size>>

get_vertical_thumb_position(s) ==
    ThumbPosition(s.last_area.y, SatSub(s.last_area.height, 2), line_count(s),
                  s.inner_height, s.vertical_offset)

get_horizontal_thumb_position(s) ==
    ThumbPosition(s.last_area.x, SatSub(s.last_area.width, 2), s.max_line_width,
                  s.inner_width, s.horizontal_offset)

is_point_in_vertical_thumb(s, x, y) ==
    /\ is_point_in_vertical_scrollbar(s, x, y)
    /\ y >= get_vertical_thumb_position(s)[1]
    /\ y < get_vertical_thumb_position(s)[2]

is_point_in_horizontal_thumb(s, x, y) ==
    /\ is_point_in_horizontal_scrollbar(s, x, y)
    /\ x >= get_horizontal_thumb_position(s)[1]
    /\ x < get_horizontal_thumb_position(s)[2]

handle_vertical_scrollbar_click(s, y) ==
    IF y < get_vertical_thumb_position(s)[1] THEN scroll_up(s, s.inner_height)
    ELSE IF y >= get_vertical_thumb_position(s)[2] THEN scroll_down(s, s.inner_height)
    ELSE s

handle_horizontal_scrollbar_click(s, x) ==
    IF x < get_horizontal_thumb_position(s)[1] THEN scroll_left(s, s.inner_width)
    ELSE IF x >= get_horizontal_thumb_position(s)[2] THEN scroll_right(s, s.inner_width)
    ELSE s

\* the offset a thumb dragged to mouse position pos stands for, or None when
\* the handler returns early
DraggedOffset(origin, track_len, content_len, visible_len, pos, drag_offset) ==
    IF content_len <= visible_len \/ track_len = 0 THEN None
    ELSE LET thumb_size == Max(Min((track_len * visible_len) \div content_len, track_len), 1)
             scrollbar_range == SatSub(track_len, thumb_size)
             clamped_thumb == Min(SatSub(SatSub(pos, origin + 1), drag_offset),
                                  scrollbar_range)
             scroll_range == SatSub(content_len, visible_len)
         IN IF scrollbar_range = 0 THEN None
            ELSE Some((clamped_thumb * scroll_range) \div scrollbar_range)

handle_vertical_scrollbar_drag(s, y, drag_offset) ==
    LET new_offset == DraggedOffset(s.last_area.y, SatSub(s.last_area.height, 2),
                                    line_count(s), s.inner_height, y, drag_offset)
    IN IF new_offset = None THEN s
       ELSE LET s1 == set_auto_scroll(s, FALSE)
            IN request_redraw(
                 set_vertical_offset(s1, Min(new_offset[1], max_scroll_position(s1))))

handle_horizontal_scrollbar_drag(s, x, drag_offset) ==
    LET new_offset == DraggedOffset(s.last_area.x, SatSub(s.last_area.width, 2),
                                    s.max_line_width, s.inner_width, x, drag_offset)
    IN IF new_offset = None THEN s
       ELSE request_redraw(
              [s EXCEPT !.horizontal_offset = Min(new_offset[1], s.max_line_width)])

(***************************************************************************)
(* Mouse events.                                                           *)
(***************************************************************************)
is_position_in_content_area(s, x, y) ==
    LET inner == Inner(s.last_area)
    IN IF search_is_active(s) /\ inner.height > 1 /\ y >= inner.y + (inner.height - 2)
       THEN FALSE
       ELSE IF x < inner.x \/ x >= inner.x + inner.width
               \/ y < inner.y \/ y >= inner.y + inner.height
       THEN FALSE
       ELSE x >= ContentStartX(s)

is_position_in_line_numbers(s, x, y) ==
    LET inner == Inner(s.last_area)
    IN IF ~s.show_line_numbers THEN FALSE
       ELSE IF search_is_active(s) /\ inner.height > 1 /\ y >= inner.y + (inner.height - 2)
       THEN FALSE
       ELSE /\ x >= inner.x
            /\ x < inner.x + calculate_line_num_width(s, Len(s.buffer) + 1)
            /\ y >= inner.y
            /\ y < inner.y + inner.height

is_in_wrap_indent_area(s, x, y) ==
    IF ~s.wrap_lines \/ s.wrap_indent = 0 THEN FALSE
    ELSE LET wrapped_line_idx == s.vertical_offset + (y - Inner(s.last_area).y)
         IN IF wrapped_line_idx >= Len(s.wrapped_lines) THEN FALSE
            ELSE /\ s.wrapped_lines[wrapped_line_idx + 1][2] > 0
                 /\ x - ContentStartX(s) < s.wrap_indent

update_cursor_state(s, x, y) ==
    [s EXCEPT !.cursor_state =
        IF s.mouse_is_down THEN "Selecting"
        ELSE IF is_position_in_line_numbers(s, x, y) THEN "LineNumber"
        ELSE IF is_position_in_content_area(s, x, y)
        THEN (IF s.wrap_lines /\ is_in_wrap_indent_area(s, x, y) THEN "Default" ELSE "Text")
        ELSE "Default"]

handle_mouse_release(s) ==
    LET s1 == [s EXCEPT !.mouse_is_down = FALSE, !.drag_direction = "None",
                        !.drag_scroll_timer = None]
    IN IF s1.last_mouse_pos # None
       THEN update_cursor_state(s1, s1.last_mouse_pos[1][1], s1.last_mouse_pos[1][2])
       ELSE s1

MouseKinds ==
    {"Down", "Drag", "Up", "Moved", "ScrollDown", "ScrollUp", "ScrollLeft", "ScrollRight"}

\* mouse_event for the left button; shift is the SHIFT modifier
mouse_event(s, kind, x, y, shift) ==
    LET s0 == [s EXCEPT !.last_mouse_pos = Some(<<x, y>>)]
    IN CASE kind = "Down" ->
              IF is_point_in_vertical_scrollbar(s0, x, y)
              THEN (IF is_point_in_vertical_thumb(s0, x, y)
                    THEN [s0 EXCEPT !.scrollbar_drag =
                            <<"Vertical", SatSub(y, get_vertical_thumb_position(s0)[1])>>]
                    ELSE handle_vertical_scrollbar_click(s0, y))
              ELSE IF is_point_in_horizontal_scrollbar(s0, x, y)
              THEN (IF is_point_in_horizontal_thumb(s0, x, y)
                    THEN [s0 EXCEPT !.scrollbar_drag =
                            <<"Horizontal", SatSub(x, get_horizontal_thumb_position(s0)[1])>>]
                    ELSE handle_horizontal_scrollbar_click(s0, x))
              ELSE handle_mouse_press(IF ~shift THEN clear_selection(s0) ELSE s0, x, y)
         [] kind = "Drag" ->
              IF s0.scrollbar_drag[1] = "Vertical"
              THEN handle_vertical_scrollbar_drag(s0, y, s0.scrollbar_drag[2])
              ELSE IF s0.scrollbar_drag[1] = "Horizontal"
              THEN handle_horizontal_scrollbar_drag(s0, x, s0.scrollbar_drag[2])
              ELSE handle_mouse_drag(s0, x, y)
         [] kind = "Up" ->
              handle_mouse_release([s0 EXCEPT !.scrollbar_drag = <<"None", 0>>])
         [] kind = "Moved" ->
              Bind(update_cursor_state(s0, x, y),
                   LAMBDA s1 :
                       IF (is_point_in_vertical_thumb(s1, x, y)
                           \/ is_point_in_horizontal_thumb(s1, x, y))
                          /\ s1.cursor_state # "Selecting"
                       THEN [s1 EXCEPT !.cursor_state = "Text"]
                       ELSE s1)
         [] kind = "ScrollDown" -> scroll_down(s0, 1)
         [] kind = "ScrollUp" -> scroll_up(s0, 1)
         [] kind = "ScrollLeft" -> scroll_left(s0, 1)
         [] kind = "ScrollRight" -> scroll_right(s0, 1)

(***************************************************************************)
(* Key events.  A key is [code, ctrl]; a character key's code is           *)
(* <<"Char", c>>, any other key's code is <<name, "">>.  recent says       *)
(* whether less than a second has passed since last_g_press.               *)
(***************************************************************************)
Key(name, ctrl) == [code |-> <<name, "">>, ctrl |-> ctrl, recent |-> FALSE]

CharKey(c, ctrl) == [code |-> <<"Char", c>>, ctrl |-> ctrl, recent |-> FALSE]

GKey(recent) == [code |-> <<"Char", "g">>, ctrl |-> FALSE, recent |-> recent]

\* the number of characters of text that lie before byte offset index
RECURSIVE CharsBefore(_, _)
CharsBefore(text, index) ==
    IF text = <<>> \/ index <= 0 THEN 0
    ELSE 1 + CharsBefore(Tail(text), index - Utf8Len(text[1]))

\* InputWidget::key_event of the search box: [input, handled]
search_input_key_event(s, key) ==
    LET in == s.search_input
        bytes == Plain(in.text)
        at == CharsBefore(in.text, in.cursor_position)
        unhandled == [widget |-> s, handled |-> FALSE]
    IN IF key.ctrl \/ ~in.is_focused THEN unhandled
       ELSE CASE key.code[1] = "Char" ->
                   IF ~is_char_boundary(bytes, in.cursor_position)
                   THEN [widget |-> [s EXCEPT !.panicked = TRUE], handled |-> TRUE]
                   ELSE [widget |->
                           [s EXCEPT !.search_input.text =
                                         SubSeq(in.text, 1, at) \o <<key.code[2]>>
                                         \o Drop(in.text, at),
                                     !.search_input.cursor_position = @ + 1],
                         handled |-> TRUE]
              [] key.code[1] = "Backspace" ->
                   IF in.cursor_position = 0 THEN [widget |-> s, handled |-> TRUE]
                   ELSE IF ~is_char_boundary(bytes, in.cursor_position - 1)
                           \/ in.cursor_position - 1 >= Len(bytes)
                   THEN [widget |-> [s EXCEPT !.panicked = TRUE], handled |-> TRUE]
                   ELSE LET k == CharsBefore(in.text, in.cursor_position - 1)
                        IN [widget |->
                              [s EXCEPT !.search_input.text =
                                            SubSeq(in.text, 1, k) \o Drop(in.text, k + 1),
                                        !.search_input.cursor_position = @ - 1],
                            handled |-> TRUE]
              [] key.code[1] = "Left" /\ in.cursor_position > 0 ->
                   [widget |-> [s EXCEPT !.search_input.cursor_position = @ - 1],
                    handled |-> TRUE]
              [] key.code[1] = "Right" /\ in.cursor_position < Len(bytes) ->
                   [widget |-> [s EXCEPT !.search_input.cursor_position = @ + 1],
                    handled |-> TRUE]
              [] key.code[1] = "Down" -> [widget |-> s, handled |-> TRUE]
              [] OTHER -> unhandled

select_all(s) ==
    IF s.buffer = <<>> THEN s
    ELSE LET last_line == Len(s.buffer) - 1
             sel == update_end(start_selection(s.selection, 0, 0),
                               last_line, Len(s.buffer[last_line + 1]))
         IN request_redraw(drag_scroll_to_selection_bounds(
                recalculate_status([s EXCEPT !.selection = sel])))

key_event(s, key) ==
    LET code == key.code[1]
        ch == key.code[2]
    IN IF s.search_mode = "Input"
       THEN (IF code = "Esc"
             THEN (IF key.ctrl THEN close_search(s) ELSE unfocus_search(s))
             ELSE IF code = "Enter"
             THEN (IF s.search_term = <<>> THEN close_search(s) ELSE unfocus_search(s))
             ELSE Bind(search_input_key_event(s, key),
                       LAMBDA r :
                           IF r.handled /\ ~r.widget.panicked
                           THEN update_search_term(r.widget)
                           ELSE r.widget))
       ELSE CASE code = "Char" /\ ch = "c" /\ key.ctrl ->
                   IF copy_selection(s)
                   THEN Bind(drag_scroll_to_selection_bounds(s),
                             LAMBDA s1 : IF s1.panicked THEN s1 ELSE clear_selection(s1))
                   ELSE s
              [] code = "Char" /\ ch = "a" /\ key.ctrl -> select_all(s)
              [] code = "Esc" ->
                   IF s.search_mode = "Open" THEN clear_search(s)
                   ELSE IF s.selection.active THEN recalculate_status(clear_selection(s))
                   ELSE s
              [] code = "Char" /\ ch = "/" ->
                   IF s.search_mode = "Closed" THEN open_search(s) ELSE focus_search(s)
              [] code = "Char" /\ ch = "n" /\ s.search_mode = "Open" -> jump_to_next_match(s)
              [] code = "Char" /\ ch = "N" /\ s.search_mode = "Open" -> jump_to_prev_match(s)
              [] code = "Up" -> scroll_up(s, 1)
              [] code = "Down" -> scroll_down(s, 1)
              [] code = "PageUp" -> scroll_up(s, s.inner_height)
              [] code = "PageDown" -> scroll_down(s, s.inner_height)
              [] code = "Home" -> scroll_to_top(s)
              [] code = "End" -> scroll_to_bottom(s)
              [] code = "Left" -> scroll_left(s, IF key.ctrl THEN s.inner_width ELSE 1)
              [] code = "Right" -> scroll_right(s, IF key.ctrl THEN s.inner_width ELSE 1)
              [] code = "F12" -> request_redraw([s EXCEPT !.dev_mode = ~s.dev_mode])
              [] code = "F11" -> set_wrap_lines(s, ~s.wrap_lines)
              [] code = "F10" ->
                   request_redraw([s EXCEPT !.show_line_numbers = ~s.show_line_numbers])
              [] code = "F9" -> request_redraw(s)
              [] code = "Char" /\ ch = "g" ->
                   IF s.waiting_for_g /\ key.recent
                   THEN [scroll_to_top(s) EXCEPT !.waiting_for_g = FALSE]
                   ELSE [s EXCEPT !.waiting_for_g = TRUE]
              [] code = "Char" /\ ch = "G" -> scroll_to_bottom(s)
              [] OTHER -> s

(***************************************************************************)
(* Focus.                                                                  *)
(***************************************************************************)
\* apply_focus without the redraw request
apply_focus_Silent(s, focused) ==
    IF s.is_focused # focused
    THEN [s EXCEPT !.is_focused = focused,
                   !.cursor_state = IF ~focused THEN "Default" ELSE @,
                   !.search_input.is_focused =
                       IF s.search_mode = "Input" THEN focused ELSE @]
    ELSE s

apply_focus(s, focused) ==
    IF s.is_focused # focused
    THEN request_redraw(
           [s EXCEPT !.is_focused = focused,
                     !.cursor_state = IF ~focused THEN "Default" ELSE @,
                     !.search_input.is_focused =
                         IF s.search_mode = "Input" THEN focused ELSE @])
    ELSE s

(***************************************************************************)
(* Drawing.                                                                *)
(***************************************************************************)
\* recalculate_scrollbars: the ratatui ScrollbarStates are derived from the
\* offsets and are not kept; what stays is the forced wrap recalculation
(***************************************************************************)
(* The styles of the characters drawn.                                     *)
(***************************************************************************)
\* the rows render_lines_wrapped draws: (orig_idx, start_char, end_char)
rendered_rows_wrapped(s) ==
    IF SatSub(s.inner_width,
              GutterWidth(calculate_line_num_width(s, Len(s.buffer)))) = 0
    THEN <<>>
    ELSE Bind(Min(s.vertical_offset, SatSub(Len(s.wrapped_lines), s.inner_height)),
              LAMBDA start :
                  SubSeq(s.wrapped_lines, start + 1,
                         Min(start + s.inner_height, Len(s.wrapped_lines))))

\* the row render_lines_clipped draws of line idx
ClippedRow(s, idx, content_w) ==
    Bind(Min(s.horizontal_offset, Len(s.buffer[idx + 1])),
         LAMBDA start_char :
             <<idx, start_char, Min(Len(s.buffer[idx + 1]), start_char + content_w)>>)

rendered_rows_clipped(s) ==
    Bind(Min(s.vertical_offset, SatSub(Len(s.buffer), s.inner_height)),
         LAMBDA start_line :
             [i \in 1..(Min(start_line + s.inner_height, Len(s.buffer)) - start_line) |->
                 ClippedRow(s, start_line + i - 1,
                            SatSub(s.inner_width,
                                   GutterWidth(calculate_line_num_width(
                                                   s, Len(s.buffer) + 1))))])

rendered_rows(s) ==
    IF s.wrap_lines THEN rendered_rows_wrapped(s) ELSE rendered_rows_clipped(s)

\* The while-let loop of render_line_content for the character at
\* absolute_char_idx: Some(m_start) of the first occurrence found to hold the
\* character, None when there is none, "fault" when lower[pos..] is sliced
\* inside a character.
RECURSIVE MatchHolding(_, _, _, _)
MatchHolding(lower, term, absolute_char_idx, pos) ==
    IF ~is_char_boundary(lower, pos) THEN "fault"
    ELSE Bind(find(Drop(lower, pos), term),
              LAMBDA hit :
                  IF hit = None THEN None
                  ELSE IF absolute_char_idx >= pos + hit[1]
                          /\ absolute_char_idx < pos + hit[1] + Len(term)
                  THEN Some(pos + hit[1])
                  ELSE IF pos + hit[1] + 1 >= Len(lower) THEN None
                  ELSE MatchHolding(lower, term, absolute_char_idx, pos + hit[1] + 1))

\* the style render_line_content gives the character: the selection style,
\* the current-match style, the match style or the character's own
char_style(s, line_idx, absolute_char_idx) ==
    IF contains_position(s.selection, line_idx, absolute_char_idx) THEN "selection"
    ELSE IF search_is_active(s) /\ s.search_term # <<>>
    THEN Bind(MatchHolding(to_lowercase(Plain(s.buffer[line_idx + 1])),
                           to_lowercase(Plain(s.search_term)), absolute_char_idx, 0),
              LAMBDA m :
                  IF m = "fault" THEN "fault"
                  ELSE IF m = None THEN "own"
                  ELSE IF s.current_match < Len(s.search_matches)
                          /\ s.search_matches[s.current_match + 1] = <<line_idx, m[1]>>
                  THEN "current"
                  ELSE "match")
    ELSE "own"

\* the characters drawn: (line_idx, absolute_char_idx)
DrawnChars(s) ==
    UNION {{<<rendered_rows(s)[r][1], c>> :
               c \in rendered_rows(s)[r][2]..(rendered_rows(s)[r][3] - 1)} :
           r \in 1..Len(rendered_rows(s))}

\* render_line_content on every row drawn
render_line_contents(s) ==
    IF search_is_active(s) /\ s.search_term # <<>>
       /\ \E p \in DrawnChars(s) : char_style(s, p[1], p[2]) = "fault"
    THEN [s EXCEPT !.panicked = TRUE]
    ELSE s

\* a variant that leaves the wrap table's width in place
recalculate_scrollbars_KeepsWidth(s) == s

recalculate_scrollbars(s) == [s EXCEPT !.wrapped_lines_width = 0]

\* the drag-scroll step at the head of draw, and the selection end after it
draw_drag_scroll(s) ==
    IF ~is_drag_scrolling(s) THEN s
    ELSE Bind(perform_drag_scroll(s),
              LAMBDA s1 :
                  Bind(IF s1.last_mouse_pos = None \/ s1.panicked THEN None
                       ELSE screen_to_buffer_position(s1, s1.last_mouse_pos[1][1],
                                                      s1.last_mouse_pos[1][2]),
                       LAMBDA p :
                           IF p = None THEN s1
                           ELSE [s1 EXCEPT
                                   !.selection = update_end(@, p[1][1], p[1][2]),
                                   !.last_mouse_in_bounds = TRUE]))

\* render_search_input computes area.y + area.height - 3 and area.width - 2 in u16
render_search_input(s, area) ==
    IF search_is_active(s) /\ (area.y + area.height < 3 \/ area.width < 2)
    THEN [s EXCEPT !.panicked = TRUE]
    ELSE s

\* the inner area draw renders the lines in
DrawInner(s, area) ==
    IF search_is_active(s) /\ Inner(area).height > 1
    THEN [Inner(area) EXCEPT !.height = @ - 2]
    ELSE Inner(area)

\* draw: the new inner size taken over
draw_resize(s, inner) ==
    IF s.inner_height # inner.height
    THEN check_and_auto_scroll(
             [s EXCEPT !.inner_width = inner.width, !.inner_height = inner.height])
    ELSE [s EXCEPT !.inner_width = inner.width]

\* draw: the lines rendered
draw_lines(s, inner) ==
    render_line_contents(IF s.wrap_lines THEN render_lines_wrapped(s, inner) ELSE s)

\* draw: the end of the frame
draw_done(s) == IF s.panicked THEN s ELSE [s EXCEPT !.redraw_requested = FALSE]

\* draw once the drag-scroll step is done
draw_frame(s, area) ==
    IF s.panicked THEN s
    ELSE draw_done(render_search_input(
             draw_lines(recalculate_scrollbars(
                            draw_resize([s EXCEPT !.last_area = area], DrawInner(s, area))),
                        DrawInner(s, area)),
             area))

draw(s, area) == draw_frame(draw_drag_scroll(s), area)

need_draw(s) == s.redraw_requested \/ is_drag_scrolling(s)

\* time passing: every kept Instant is units units older
tick(s, units) ==
    IF s.drag_scroll_timer = None THEN s
    ELSE [s EXCEPT !.drag_scroll_timer = Some(Min(@[1] + units, MaxElapsed))]

(***************************************************************************)
(* The state machine.  w is the widget; prev is the widget before the last *)
(* operation and op names that operation and its arguments; hist, when     *)
(* recorded, is the sequence of lines appended since the last clear.       *)
(***************************************************************************)
\* what the properties need of the widget an operation started from
Snapshot(s) ==
    [selection |-> s.selection,
     mouse_is_down |-> s.mouse_is_down,
     drag_direction |-> s.drag_direction,
     drag_scroll_timer |-> s.drag_scroll_timer,
     vertical_offset |-> s.vertical_offset,
     max_scroll_position |-> max_scroll_position(s),
     buffer_len |-> Len(s.buffer),
     inner_height |-> s.inner_height]

NoOp == [name |-> "new", arg |-> <<>>]

\* one operation of the widget's owner: no call is made on a panicked widget
Step(name, arg, s1) ==
    /\ ~w.panicked
    /\ w' = s1
    /\ prev' = Snapshot(w)
    /\ op' = [name |-> name, arg |-> arg]

Appended(lines) == IF hist = None THEN None ELSE Some(hist[1] \o lines)

CanAppend(n) == IF hist = None THEN TRUE ELSE Len(hist[1]) + n <= MaxAppends

RECURSIVE SeqsUpTo(_, _)
SeqsUpTo(S, n) ==
    IF n = 0 THEN {<<>>}
    ELSE LET shorter == SeqsUpTo(S, n - 1)
         IN shorter \cup {Append(q, x) : q \in {r \in shorter : Len(r) = n - 1}, x \in S}

AddStyledLine(Lines) ==
    \E line \in Lines :
        /\ CanAppend(1)
        /\ Step("add_styled_line", <<line>>, add_styled_line(w, line))
        /\ hist' = Appended(<<line>>)

AddStyledLines(Lines) ==
    \E parsed \in SeqsUpTo(Lines, MaxBatch) :
        /\ CanAppend(Len(parsed))
        /\ Step("add_styled_lines", parsed, add_styled_lines(w, parsed))
        /\ hist' = Appended(parsed)

Clear ==
    /\ Step("clear", <<>>, clear(w))
    /\ hist' = IF hist = None THEN None ELSE Some(<<>>)

(***************************************************************************)
(* SpecAppend: widgets of every capacity 0..MaxCap fed by single and       *)
(* batched appends and cleared, with the appended lines recorded.          *)
(***************************************************************************)
AppendLines == {<<>>, <<"a">>, <<"b", "c">>}

InitAppend ==
    /\ \E capacity \in 0..MaxCap : w = NewWidget(capacity, 0)
    /\ prev = Snapshot(w)
    /\ op = NoOp
    /\ hist = Some(<<>>)

NextAppend ==
    \/ AddStyledLine(AppendLines)
    \/ AddStyledLines(AppendLines)
    \/ Clear

SpecAppend == InitAppend /\ [][NextAppend]_vars

\* the last n elements of seq (all of it when it is shorter)
LastN(seq, n) == Drop(seq, SatSub(Len(seq), n))

\* C1: after any sequence of add_styled_line / add_styled_lines calls on a
\* widget of any capacity N (0 and 1 included), the buffer holds at most N
\* lines, lengths has one entry per buffer line equal to that line's character
\* count, and the buffer is exactly the last min(total appended since the last
\* clear, N) lines in append order.
C1_BufferIsLastN ==
    hist # None =>
        /\ Len(w.buffer) <= w.line_capacity
        /\ Len(w.lengths) = Len(w.buffer)
        /\ \A i \in 1..Len(w.buffer) : w.lengths[i] = Len(w.buffer[i])
        /\ w.buffer = LastN(hist[1], Min(Len(hist[1]), w.line_capacity))

(***************************************************************************)
(* Operations on the viewport.                                             *)
(***************************************************************************)
Draw(Areas) ==
    \E area \in Areas :
        /\ Step("draw", area, draw(w, area))
        /\ UNCHANGED hist

ScrollUp(Amounts) ==
    \E n \in Amounts :
        /\ Step("scroll_up", n, scroll_up(w, n))
        /\ UNCHANGED hist

ScrollDown(Amounts) ==
    \E n \in Amounts :
        /\ Step("scroll_down", n, scroll_down(w, n))
        /\ UNCHANGED hist

ScrollToTop ==
    /\ Step("scroll_to_top", <<>>, scroll_to_top(w))
    /\ UNCHANGED hist

ScrollToBottom ==
    /\ Step("scroll_to_bottom", <<>>, scroll_to_bottom(w))
    /\ UNCHANGED hist

SetWrapLines ==
    \E wrap_lines \in BOOLEAN :
        /\ Step("set_wrap_lines", wrap_lines, set_wrap_lines(w, wrap_lines))
        /\ UNCHANGED hist

(***************************************************************************)
(* The end-to-end scenario: ScenarioLines numbered lines appended one at a *)
(* time to a widget of capacity ScenarioCap drawn ScenarioHeight rows      *)
(* high.                                                                   *)
(***************************************************************************)
ScenarioCap == 100
ScenarioLines == 150
ScenarioHeight == 20

DigitChars == <<"0", "1", "2", "3", "4", "5", "6", "7", "8", "9">>

\* format!("{}", k): the decimal digits of k
RECURSIVE Decimal(_)
Decimal(k) ==
    IF k < 10 THEN <<DigitChars[k + 1]>>
    ELSE Append(Decimal(k \div 10), DigitChars[(k % 10) + 1])

NumberedLines(from, to) == [i \in 1..(to - from + 1) |-> Decimal(from + i - 1)]

\* an area whose inner rectangle is width x height
AreaOf(width, height) == Rect(0, 0, width + 2, height + 2)

\* the scenario's widget is the one whose appends are recorded
InScenario == hist # None

InitScenario ==
    /\ w = NewWidget(ScenarioCap, 0)
    /\ prev = Snapshot(w)
    /\ op = NoOp
    /\ hist = Some(<<>>)

ScenarioAppend ==
    /\ InScenario
    /\ Len(hist[1]) < ScenarioLines
    /\ LET line == Decimal(Len(hist[1]))
       IN /\ Step("add_styled_line", <<line>>, add_styled_line(w, line))
          /\ hist' = Appended(<<line>>)

ScenarioDraw ==
    /\ InScenario
    /\ op.name # "draw"
    /\ Draw({AreaOf(ScenarioHeight, ScenarioHeight)})

(***************************************************************************)
(* SpecScroll: small widgets appended to, cleared, drawn in areas of       *)
(* several sizes, scrolled and re-wrapped, in builds with and without      *)
(* overflow checks; and the end-to-end scenario.                           *)
(***************************************************************************)
ScrollLines == {<<"a", "b", "c">>}

\* inner rectangles 0x0, 4x1 (content width 1) and 6x2 (content width 3)
ScrollAreas == {Rect(0, 0, 1, 1), AreaOf(4, 1), AreaOf(6, 2)}

ScrollAmounts == {0, 1, MaxScroll, USIZE_MAX}

InitScroll ==
    /\ \E capacity \in 1..MaxCap, checks \in BOOLEAN :
          w = [NewWidget(capacity, 0) EXCEPT !.overflow_checks = checks]
    /\ prev = Snapshot(w)
    /\ op = NoOp
    /\ hist = None

NextScroll ==
    \/ ~InScenario /\ AddStyledLine(ScrollLines)
    \/ ~InScenario /\ Clear
    \/ ~InScenario /\ Draw(ScrollAreas)
    \/ ~InScenario /\ ScrollUp(ScrollAmounts)
    \/ ~InScenario /\ ScrollDown(ScrollAmounts)
    \/ ~InScenario /\ ScrollToTop
    \/ ~InScenario /\ ScrollToBottom
    \/ ~InScenario /\ SetWrapLines
    \/ ScenarioAppend
    \/ ScenarioDraw

InitScrollOrScenario == InitScroll \/ InitScenario

SpecScroll == InitScrollOrScenario /\ [][NextScroll]_vars

Appends == {"add_styled_line", "add_styled_lines"}

\* the rows the viewport can show: wrap-table rows or buffer lines
DisplayedRows(s) == IF s.wrap_lines THEN Len(s.wrapped_lines) ELSE Len(s.buffer)

\* C2, general part: an append made with auto_scroll on and followed by a draw
\* that leaves auto_scroll on puts vertical_offset at
\* max(0, displayed rows - viewport height)
C2_AppendThenDraw ==
    (/\ op.name \in Appends
     /\ op'.name = "draw"
     /\ w.auto_scroll
     /\ w'.auto_scroll
     /\ ~w'.panicked)
        => w'.vertical_offset = Max(0, DisplayedRows(w') - w'.inner_height)

\* C2, scenario: once all ScenarioLines (150) lines are appended one at a time
\* to the widget of capacity ScenarioCap (100) and it is drawn ScenarioHeight
\* (20) rows high, vertical_offset is ScenarioCap - ScenarioHeight (80) and the
\* buffer holds the lines numbered ScenarioLines - ScenarioCap .. ScenarioLines
\* - 1 (50..149)
C2_ScenarioEnd ==
    (/\ InScenario
     /\ op'.name = "draw"
     /\ Len(hist[1]) = ScenarioLines)
        => /\ w'.auto_scroll
           /\ w'.inner_height = ScenarioHeight
           /\ w'.vertical_offset = ScenarioCap - ScenarioHeight
           /\ w'.buffer = NumberedLines(ScenarioLines - ScenarioCap, ScenarioLines - 1)

\* C2: while auto_scroll is on, after every append followed by a draw the
\* viewport is at the bottom, vertical_offset = max(0, displayed rows -
\* viewport height); and appending 150 lines one at a time to a widget of
\* capacity 100 drawn 20 rows high ends with vertical_offset = 80 and the
\* buffer holding the lines numbered 50..149.
C2_AutoScrollTracksBottom == [][C2_AppendThenDraw /\ C2_ScenarioEnd]_vars

C2_Witness ==
    /\ InScenario
    /\ op.name = "draw"
    /\ Len(hist[1]) = ScenarioLines
    /\ prev.vertical_offset # w.vertical_offset
    /\ w.vertical_offset = ScenarioCap - ScenarioHeight
    /\ w.buffer[1] = Decimal(ScenarioLines - ScenarioCap)

ScrollOps == {"scroll_up", "scroll_down", "scroll_to_top", "scroll_to_bottom"}

\* C3: after scroll_up(n), scroll_down(n), scroll_to_top or scroll_to_bottom,
\* from any reachable state and for any n up to the largest machine integer,
\* 0 <= vertical_offset <= max_scroll_position().
C3_ScrollStaysInRange ==
    (op.name \in ScrollOps /\ ~w.panicked)
        => /\ 0 <= w.vertical_offset
           /\ w.vertical_offset <= max_scroll_position(w)

\* C4: once a manual scroll_up has left auto_scroll off below the bottom, the
\* scroll_down call that brings vertical_offset to max_scroll_position leaves
\* auto_scroll on, with no further call.
C4_ReachingBottomReenables ==
    [][(/\ op.name = "scroll_up"
        /\ ~w.auto_scroll
        /\ w.vertical_offset < max_scroll_position(w)
        /\ op'.name = "scroll_down"
        /\ ~w'.panicked
        /\ w'.vertical_offset = max_scroll_position(w'))
           => w'.auto_scroll]_vars

(***************************************************************************)
(* Operations of the mouse, the keyboard and the clock.                    *)
(***************************************************************************)
MouseEvent(Kinds, Points) ==
    \E kind \in Kinds, pt \in Points :
        /\ Step("mouse_event", <<kind, pt>>, mouse_event(w, kind, pt[1], pt[2], FALSE))
        /\ UNCHANGED hist

KeyEvent(Keys) ==
    \E key \in Keys :
        /\ Step("key_event", key, key_event(w, key))
        /\ UNCHANGED hist

\* the units of time that make up the slow interval
SlowUnits == (DRAG_SPEED_SLOW + TimeUnitMs - 1) \div TimeUnitMs

\* the slow interval passes between two calls
Tick ==
    /\ w.drag_scroll_timer # None
    /\ w.drag_scroll_timer[1] < MaxElapsed
    /\ Step("tick", <<>>, tick(w, SlowUnits))
    /\ UNCHANGED hist

(***************************************************************************)
(* SpecSelect: a widget of capacity MaxCap, wrapping or not, appended to   *)
(* and drawn, with text selected by mouse (press, drag into and out of the *)
(* content area, release) and by Ctrl+A, while time passes.                *)
(***************************************************************************)
SelectLines == {<<"a", "b">>}

\* inner rectangle 6x1 at (1, 1): content columns 4..6, row 1
SelectAreas == {AreaOf(6, 1)}

\* two content cells, the cell below the second and the cell above it
SelectPoints == {<<4, 1>>, <<5, 2>>, <<5, 0>>}

SelectMouseKinds == {"Down", "Drag", "Up"}

SelectKeys == {CharKey("a", TRUE), Key("Esc", FALSE)}

InitSelect ==
    /\ \E wrap_lines \in BOOLEAN : w = set_wrap_lines(NewWidget(MaxCap, 0), wrap_lines)
    /\ prev = Snapshot(w)
    /\ op = NoOp
    /\ hist = None

NextSelect ==
    \/ AddStyledLine(SelectLines)
    \/ AddStyledLines(SelectLines)
    \/ Draw(SelectAreas)
    \/ MouseEvent(SelectMouseKinds, SelectPoints)
    \/ KeyEvent(SelectKeys)
    \/ Tick

SpecSelect == InitSelect /\ [][NextSelect]_vars

\* the number of lines the last append pushed out of the buffer
Evicted == prev.buffer_len + Len(op.arg) - Len(w.buffer)

\* was buffer line k of the widget before the last append pushed out by it?
WasEvicted(k) == k < prev.buffer_len /\ k < Evicted

\* C5: when a selection is active with its anchor (start) or its cursor (end)
\* on buffer line k, an append, single or batched, that evicts line k leaves
\* the selection inactive and mouse_is_down false: the selection is not
\* re-anchored to another line.
C5_EvictionClearsSelection ==
    (/\ op.name \in Appends
     /\ prev.selection.active
     /\ WasEvicted(prev.selection.start.line) \/ WasEvicted(prev.selection.end.line))
        => /\ ~w.selection.active
           /\ ~w.mouse_is_down

C5_Witness ==
    /\ op.name = "add_styled_lines"
    /\ prev.selection.active
    /\ prev.mouse_is_down
    /\ prev.selection.start # prev.selection.end
    /\ WasEvicted(prev.selection.start.line)
    /\ Evicted < prev.buffer_len
    /\ Len(w.buffer) = w.line_capacity
    /\ ~w.selection.active

\* C9 as stated: whenever a selection drag is held in the bottom-edge zone
\* (mouse down, drag direction Down) with vertical_offset equal to
\* max_scroll_position(), the next draw clears the controller (drag_direction
\* None, timer None), so that need_draw() is no longer true on account of
\* drag-scrolling.
C9_FirstDrawClears ==
    [][(/\ w.mouse_is_down
        /\ w.drag_direction = "Down"
        /\ w.vertical_offset = max_scroll_position(w)
        /\ op'.name = "draw")
           => /\ w'.drag_direction = "None"
              /\ w'.drag_scroll_timer = None
              /\ ~is_drag_scrolling(w')]_vars

\* C9, amended: in that situation a draw made DRAG_SPEED_SLOW (150 ms) or more
\* after the controller's timer was started clears the controller
\* (drag_direction None, timer None, is_drag_scrolling false), and a draw made
\* sooner leaves direction and timer as they were.
C9_DueDrawClears ==
    [][(/\ w.mouse_is_down
        /\ w.drag_direction = "Down"
        /\ w.vertical_offset = max_scroll_position(w)
        /\ op'.name = "draw")
           => /\ w.drag_scroll_timer # None
              /\ IF Elapsed(w) >= DRAG_SPEED_SLOW
                 THEN /\ w'.drag_direction = "None"
                      /\ w'.drag_scroll_timer = None
                      /\ ~is_drag_scrolling(w')
                 ELSE /\ w'.drag_direction = w.drag_direction
                      /\ w'.drag_scroll_timer = w.drag_scroll_timer
                      /\ is_drag_scrolling(w')]_vars

C9_Witness ==
    /\ op.name = "draw"
    /\ prev.mouse_is_down
    /\ prev.drag_direction = "Down"
    /\ prev.buffer_len > prev.inner_height
    /\ prev.vertical_offset = prev.max_scroll_position
    /\ prev.drag_scroll_timer # None
    /\ Elapsed(prev) >= DRAG_SPEED_SLOW
    /\ w.mouse_is_down
    /\ w.drag_direction = "None"
    /\ w.drag_scroll_timer = None

\* the positions contains_position is asked about
ProbeLines == 0..MaxCap

ProbeChars == 0..3

\* document (line-major) order on positions
Before(p, q) == p.line < q.line \/ (p.line = q.line /\ p.char_idx < q.char_idx)

\* the earlier and the later of the selection's two endpoints
Earlier(sel) == IF Before(sel.end, sel.start) THEN sel.end ELSE sel.start

Later(sel) == IF Before(sel.end, sel.start) THEN sel.start ELSE sel.end

\* C10: for an active selection, whichever way it was dragged,
\* contains_position(line, idx) is true exactly when start <= (line, idx) < end
\* in document order, start and end being the normalized endpoints (so the end
\* position and the position just before start are not contained); for an
\* inactive selection it is false everywhere.
C10_ContainsIsHalfOpen ==
    \A line \in ProbeLines, idx \in ProbeChars :
        contains_position(w.selection, line, idx)
            = (/\ w.selection.active
               /\ ~Before(Pos(line, idx), Earlier(w.selection))
               /\ Before(Pos(line, idx), Later(w.selection)))

C10_Witness ==
    /\ op.name = "mouse_event"
    /\ w.selection.active
    /\ Before(w.selection.end, w.selection.start)
    /\ w.selection.end.line < w.selection.start.line
    /\ contains_position(w.selection, w.selection.end.line, w.selection.end.char_idx)
    /\ ~contains_position(w.selection, w.selection.start.line, w.selection.start.char_idx)

(***************************************************************************)
(* SpecWrap: a widget of capacity MaxCap built with a wrap indent of       *)
(* WrapIndents, wrapping or not, fed lines with and without spaces and     *)
(* drawn at several content widths.                                        *)
(***************************************************************************)
\* the line of the wrap scenario, "abcdefghij klmno"
WrapScenarioLine ==
    <<"a", "b", "c", "d", "e", "f", "g", "h", "i", "j", " ",
      "k", "l", "m", "n", "o">>

WrapLines == {<<>>, <<"a", " ", "b", "c", "d">>, WrapScenarioLine}

\* no indent, the scenario's indent, an indent as wide as the scenario's content
WrapIndents == {0, 2, 10}

\* the content width of a draw: the inner width less the line-number gutter
ContentWidth(s) ==
    SatSub(Inner(s.last_area).width,
           GutterWidth(calculate_line_num_width(s, Len(s.buffer))))

\* inner widths 2 (no room for content), 4, 6 and 13: content widths 0, 1, 3, 10
WrapAreas == {AreaOf(2, 1), AreaOf(4, 1), AreaOf(6, 2), AreaOf(13, 2)}

InitWrap ==
    /\ \E wrap_indent \in WrapIndents : w = NewWidget(MaxCap, wrap_indent)
    /\ prev = Snapshot(w)
    /\ op = NoOp
    /\ hist = None

NextWrap ==
    \/ AddStyledLine(WrapLines)
    \/ Draw(WrapAreas)
    \/ SetWrapLines

SpecWrap == InitWrap /\ [][NextWrap]_vars

\* the segments of the wrap table that belong to logical line i
SegmentsOf(table, i) == SelectSeq(table, LAMBDA seg : seg[1] = i)

RECURSIVE Concat(_)
Concat(seqs) == IF seqs = <<>> THEN <<>> ELSE Head(seqs) \o Concat(Tail(seqs))

\* segs, the segments of logical line i, cover line from 0 to its length
CoversLine(segs, i, line) ==
    /\ Len(segs) >= 1
    /\ segs[1][2] = 0
    /\ \A j \in 1..(Len(segs) - 1) : segs[j + 1][2] = segs[j][3]
    /\ \A j \in 1..Len(segs) : segs[j][2] <= segs[j][3]
    /\ segs[Len(segs)][3] = Len(line)
    /\ line = <<>> => segs = <<<<i, 0, 0>>>>
    /\ Concat([j \in 1..Len(segs) |-> SubSeq(line, segs[j][2] + 1, segs[j][3])]) = line

WellFormed(table, buffer) ==
    /\ \A j \in 1..Len(table) : table[j][1] \in 0..(Len(buffer) - 1)
    /\ \A j \in 1..(Len(table) - 1) : table[j][1] <= table[j + 1][1]
    /\ \A i \in 0..(Len(buffer) - 1) : CoversLine(SegmentsOf(table, i), i, buffer[i + 1])

\* C6: after a draw in wrap mode with content width >= 1, whatever the indent,
\* the wrap table is well formed: segments in ascending line order, at least
\* one segment per logical line (exactly (i,0,0) for an empty line), the first
\* starting at 0, each next one starting where the previous ended, the last
\* ending at the line's length, so that the ranges concatenated give the line.
C6_WrapTableWellFormed ==
    (op.name = "draw" /\ w.wrap_lines /\ ContentWidth(w) >= 1 /\ ~w.panicked)
        => WellFormed(w.wrapped_lines, w.buffer)

C6_Witness ==
    /\ op.name = "draw"
    /\ w.wrap_lines
    /\ ContentWidth(w) = 1
    /\ w.wrap_indent = 2
    /\ Len(w.buffer) = MaxCap
    /\ w.buffer[1] = <<>>
    /\ Len(w.buffer[MaxCap]) > 1
    /\ Len(w.wrapped_lines) > Len(w.buffer[MaxCap])

InWrapScenario ==
    /\ op.name = "draw"
    /\ w.wrap_lines
    /\ ~w.panicked
    /\ ContentWidth(w) = 10
    /\ w.wrap_indent = 2
    /\ w.buffer = <<WrapScenarioLine>>

\* C7 as stated: with content width 10 and wrap indent 2, a buffer holding the
\* single line "abcdefghij klmno" wraps into exactly the two segments (0,0,11)
\* and (0,11,16).
C7_BreakAfterSpace ==
    InWrapScenario => w.wrapped_lines = <<<<0, 0, 11>>, <<0, 11, 16>>>>

\* C7, amended: with content width 10 and wrap indent 2, a buffer holding the
\* single line "abcdefghij klmno" wraps into exactly the two segments (0,0,10)
\* and (0,10,16): the first ten characters hold no space, so the break is hard.
C7_HardBreakAtWidth ==
    InWrapScenario => w.wrapped_lines = <<<<0, 0, 10>>, <<0, 10, 16>>>>

C7_Witness ==
    /\ InWrapScenario
    /\ Len(w.wrapped_lines) = 2
    /\ w.wrapped_lines[2][3] = Len(WrapScenarioLine)

(***************************************************************************)
(* SpecSearch: a widget of capacity MaxCap holding ASCII and non-ASCII     *)
(* lines, searched from the keyboard: '/' opens the search box, characters *)
(* and Backspace edit the term, Enter and Esc leave the box.               *)
(***************************************************************************)
\* the longest search term typed
MaxTerm == 2

SearchLines == {<<"o", "O", "o">>, <<LowerEAcute, "o">>}

SearchKeys ==
    {CharKey("/", FALSE), CharKey("o", FALSE), CharKey(UpperEAcute, FALSE),
     Key("Backspace", FALSE), Key("Enter", FALSE), Key("Esc", FALSE)}

\* a key pressed, the term in the search box kept to MaxTerm characters
SearchKeyEvent(Keys) ==
    \E key \in Keys :
        /\ (w.search_mode = "Input" /\ key.code[1] = "Char")
               => Len(w.search_input.text) < MaxTerm
        /\ Step("key_event", key, key_event(w, key))
        /\ UNCHANGED hist

InitSearch ==
    /\ w = NewWidget(MaxCap, 0)
    /\ prev = Snapshot(w)
    /\ op = NoOp
    /\ hist = None

NextSearch ==
    \/ AddStyledLine(SearchLines)
    \/ SearchKeyEvent(SearchKeys)

SpecSearch == InitSearch /\ [][NextSearch]_vars

\* a line or a term with every character in lower case
LowerChars(line) == [i \in 1..Len(line) |-> ToLower(line[i])]

\* does term occur in line at character position start, whatever the case?
OccursAt(line, term, start) ==
    /\ start + Len(term) <= Len(line)
    /\ SubSeq(LowerChars(line), start + 1, start + Len(term)) = LowerChars(term)

\* every (line, start) at which term occurs in buffer
Occurrences(buffer, term) ==
    {<<l, start>> \in (0..(Len(buffer) - 1)) \X (0..3) :
        OccursAt(buffer[l + 1], term, start)}

\* C8: after the search term is set to a non-empty t, search_matches is
\* exactly the list of the positions (line, start) at which t occurs in the
\* plain text of the buffer's lines, whatever the case, overlapping occurrences
\* included, without duplicates, ordered by line and then by start.
C8_MatchesAreAllOccurrences ==
    (/\ op.name = "key_event"
     /\ w.search_mode = "Input"
     /\ w.search_term # <<>>
     /\ w.search_term = w.search_input.text
     /\ ~w.panicked)
        => /\ {w.search_matches[i] : i \in 1..Len(w.search_matches)}
                  = Occurrences(w.buffer, w.search_term)
           /\ \A i \in 1..(Len(w.search_matches) - 1) :
                  \/ w.search_matches[i][1] < w.search_matches[i + 1][1]
                  \/ /\ w.search_matches[i][1] = w.search_matches[i + 1][1]
                     /\ w.search_matches[i][2] < w.search_matches[i + 1][2]

\* C11: in every reachable state, after any public operation (append, scroll,
\* search jump, wrap toggle, scrollbar drag, clear, a draw that changes the
\* viewport height), vertical_offset <= max_scroll_position().
C11_OffsetWithinMax ==
    ~w.panicked => w.vertical_offset <= max_scroll_position(w)


(***************************************************************************)
(* Horizontal scrolling in clipped mode of a widget holding one line: the  *)
(* Left/Right keys, select-all, copy, presses in the content and presses   *)
(* and drags on the horizontal scrollbar.                                  *)
(***************************************************************************)
HScrollLines == {<<"a", "b", "c", "d", "e">>}

HScrollAreas == {AreaOf(4, 1)}

HScrollPoints == {<<4, 1>>, <<4, 2>>}

HScrollKeys ==
    {Key("Left", FALSE), Key("Right", FALSE), CharKey("a", TRUE), CharKey("c", TRUE)}

InitHScroll ==
    /\ \E line \in HScrollLines :
           w = add_styled_line(set_wrap_lines(NewWidget(MaxCap, 0), FALSE), line)
    /\ prev = Snapshot(w)
    /\ op = NoOp
    /\ hist = None

NextHScroll ==
    \/ Draw(HScrollAreas)
    \/ KeyEvent(HScrollKeys)
    \/ MouseEvent(SelectMouseKinds, HScrollPoints)

SpecHScroll == InitHScroll /\ [][NextHScroll]_vars

\* The largest horizontal offset at which the viewport still ends inside the
\* widest line.
MaxHorizontalOffset(s) == SatSub(s.max_line_width, s.inner_width)

\* C12: in every reachable state horizontal_offset <= max_line_width -
\* viewport_width when the widest line exceeds the viewport width, and
\* horizontal_offset = 0 when the content fits.
C12_HorizontalOffsetWithinMax ==
    ~w.panicked => w.horizontal_offset <= MaxHorizontalOffset(w)


(***************************************************************************)
(* A batch appended line by line.                                          *)
(***************************************************************************)
RECURSIVE AddEach(_, _)
AddEach(s, lines) ==
    IF lines = <<>> THEN s
    ELSE AddEach(add_styled_line(s, Head(lines)), Tail(lines))

BatchAgrees(s, parsed) ==
    /\ add_styled_lines(s, parsed).buffer = AddEach(s, parsed).buffer
    /\ add_styled_lines(s, parsed).lengths = AddEach(s, parsed).lengths

BatchKeepsTrailing(s, parsed) ==
    Len(parsed) >= s.line_capacity =>
        add_styled_lines(s, parsed).buffer = LastN(parsed, s.line_capacity)

\* C13: from every reachable buffer state, add_styled_lines(batch) leaves the
\* same buffer and length cache as add_styled_line called once per line of the
\* batch in order, and a batch of at least `capacity` lines leaves exactly its
\* trailing `capacity` lines.
C13_BatchEqualsSingles ==
    \A parsed \in SeqsUpTo(AppendLines, MaxBatch) :
        BatchAgrees(w, parsed) /\ BatchKeepsTrailing(w, parsed)


(***************************************************************************)
(* SpecBreak: find_break called on one buffered line of letters and spaces *)
(* at every start inside the line and every limit 0..MaxLimit; op.arg      *)
(* records the call as <<start, limit, returned position>>.                *)
(***************************************************************************)
MaxBreakLen == 4

MaxLimit == 4

BreakLines == SeqsUpTo({"a", " "}, MaxBreakLen) \ {<<>>}

InitBreak ==
    /\ \E line \in BreakLines : w = add_styled_line(NewWidget(MaxCap, 0), line)
    /\ prev = Snapshot(w)
    /\ op = NoOp
    /\ hist = None

FindBreak ==
    \E start \in 0..(Len(w.buffer[1]) - 1), limit \in 0..MaxLimit :
        /\ op' = [name |-> "find_break",
                  arg |-> <<start, limit, find_break(w.buffer[1], start, limit)>>]
        /\ UNCHANGED <<w, prev, hist>>

NextBreak == FindBreak

SpecBreak == InitBreak /\ [][NextBreak]_vars

\* C14: every call find_break(line, start, limit) with start < len(line)
\* returns a position p with start < p <= len(line), for every limit >= 0,
\* the limit 0 of an indent as wide as the content included, so each turn of
\* the loop that builds the wrap table moves forward and the loop ends.
C14_FindBreakAdvances ==
    op.name = "find_break" =>
        /\ op.arg[1] < op.arg[3]
        /\ op.arg[3] <= Len(w.buffer[1])

C14_Witness ==
    /\ op.name = "find_break"
    /\ op.arg[2] = 0
    /\ op.arg[1] > 0
    /\ op.arg[3] = op.arg[1] + 1
    /\ op.arg[3] < Len(w.buffer[1])


(***************************************************************************)
(* The text of a selection: the range of each selected line, the ranges    *)
(* joined by one newline between consecutive lines.                        *)
(***************************************************************************)
RangeOfLine(buffer, start, end, line_idx) ==
    LET line == buffer[line_idx + 1]
        from == IF line_idx = start.line THEN Min(start.char_idx, Len(line)) ELSE 0
        to == IF line_idx = end.line THEN Min(end.char_idx, Len(line)) ELSE Len(line)
    IN SubSeq(line, from + 1, to)

RECURSIVE JoinedRanges(_, _, _, _)
JoinedRanges(buffer, start, end, line_idx) ==
    IF line_idx = end.line THEN RangeOfLine(buffer, start, end, line_idx)
    ELSE RangeOfLine(buffer, start, end, line_idx) \o <<"\n">>
         \o JoinedRanges(buffer, start, end, line_idx + 1)

Newlines(text) == Len(SelectSeq(text, LAMBDA c : c = "\n"))

SelectionInBuffer(s) ==
    /\ s.selection.active
    /\ normalize(s.selection)[2].line < Len(s.buffer)

(***************************************************************************)
(* SpecCopy: a widget holding two lines, the first one empty or not, both  *)
(* visible, in wrap or clipped mode; selections made with the mouse and    *)
(* with select-all.                                                        *)
(***************************************************************************)
CopyFirstLines == {<<>>, <<"a">>}

CopyAreas == {AreaOf(6, 2)}

CopyPoints == {<<3, 1>>, <<4, 1>>, <<4, 2>>}

CopyKeys == {CharKey("a", TRUE), Key("Esc", FALSE)}

InitCopy ==
    /\ \E wrap_lines \in BOOLEAN, first \in CopyFirstLines :
           w = add_styled_lines(set_wrap_lines(NewWidget(MaxCap, 0), wrap_lines),
                                <<first, <<"b">>>>)
    /\ prev = Snapshot(w)
    /\ op = NoOp
    /\ hist = None

NextCopy ==
    \/ Draw(CopyAreas)
    \/ MouseEvent(SelectMouseKinds, CopyPoints)
    \/ KeyEvent(CopyKeys)

SpecCopy == InitCopy /\ [][NextCopy]_vars

\* C15: for an active selection spanning lines s..e of the buffer,
\* get_selected_text returns the selected range of each line joined by exactly
\* one "\n" between consecutive lines, so the text holds exactly e - s
\* newlines, also when some selected lines contribute no characters (a
\* selection of no characters at all gives no text).
C15_SelectedTextIsJoinedRanges ==
    (SelectionInBuffer(w) /\ ~w.panicked) =>
        Bind(JoinedRanges(w.buffer, normalize(w.selection)[1], normalize(w.selection)[2],
                          normalize(w.selection)[1].line),
             LAMBDA text :
                 IF text = <<>> THEN get_selected_text(w) = None
                 ELSE /\ get_selected_text(w) = Some(text)
                      /\ Newlines(get_selected_text(w)[1])
                           = normalize(w.selection)[2].line - normalize(w.selection)[1].line)


(***************************************************************************)
(* SpecJump: a widget holding two lines, drawn, in wrap or clipped mode,   *)
(* searched for "o": the term typed, Enter, n and N.                       *)
(***************************************************************************)
JumpFirstLines == {<<>>, <<"a", "b", "o">>}

JumpAreas == {AreaOf(4, 1), AreaOf(6, 1)}

JumpKeys ==
    {CharKey("/", FALSE), CharKey("o", FALSE), CharKey("n", FALSE), CharKey("N", FALSE),
     Key("Backspace", FALSE), Key("Enter", FALSE)}

InitJump ==
    /\ \E wrap_lines \in BOOLEAN, first \in JumpFirstLines, area \in JumpAreas :
           w = draw(add_styled_lines(set_wrap_lines(NewWidget(MaxCap, 0), wrap_lines),
                                     <<first, <<"o">>>>),
                    area)
    /\ prev = Snapshot(w)
    /\ op = NoOp
    /\ hist = None

NextJump ==
    \/ Draw(JumpAreas)
    \/ SearchKeyEvent(JumpKeys)

SpecJump == InitJump /\ [][NextJump]_vars

\* the last operation jumped to the current match: n or N with the search
\* open, or a key that changed the term in the search box and found matches
Jumped ==
    /\ op.name = "key_event"
    /\ w.search_matches # <<>>
    /\ \/ w.search_mode = "Open" /\ op.arg.code \in {<<"Char", "n">>, <<"Char", "N">>}
       \/ w.search_mode = "Input" /\ op.arg.code \in {<<"Char", "o">>, <<"Backspace", "">>}

\* the row of a logical line: its index in clipped mode, in wrap mode the
\* number of wrap-table segments of the lines before it
RowOfLine(s, line_idx) ==
    IF s.wrap_lines
    THEN Len(SelectSeq(s.wrapped_lines, LAMBDA seg : seg[1] < line_idx))
    ELSE line_idx

\* C16: jumping to a search match (n, N, or a term change that finds matches)
\* sets auto_scroll to false and vertical_offset to the row of the match's
\* line: the line index in clipped mode, the index of the line's first
\* segment in the wrap table in wrap mode.
C16_JumpGoesToMatchRow ==
    (Jumped /\ ~w.panicked) =>
        /\ ~w.auto_scroll
        /\ w.vertical_offset = RowOfLine(w, w.search_matches[w.current_match + 1][1])


(***************************************************************************)
(* Dirty tracking.                                                         *)
(***************************************************************************)
ApplyFocus ==
    \E focused \in BOOLEAN :
        /\ Step("apply_focus", focused, apply_focus(w, focused))
        /\ UNCHANGED hist

(***************************************************************************)
(* SpecDirty: every kind of operation on a widget of capacity 1: appends,  *)
(* clear, draws, scrolling right, the wrap mode, the focus, a search and a *)
(* selection made with the mouse and dragged below the content.            *)
(***************************************************************************)
DirtyLines == {<<"o">>}

DirtyAreas == {AreaOf(4, 1)}

DirtyKeys ==
    {CharKey("/", FALSE), CharKey("o", FALSE), Key("Right", FALSE)}

InitDirty ==
    /\ w = NewWidget(1, 0)
    /\ prev = Snapshot(w)
    /\ op = NoOp
    /\ hist = None

NextDirty ==
    \/ AddStyledLine(DirtyLines)
    \/ Clear
    \/ Draw(DirtyAreas)
    \/ SetWrapLines
    \/ ApplyFocus
    \/ SearchKeyEvent(DirtyKeys)
    \/ MouseEvent({"Down"}, {<<4, 1>>})
    \/ MouseEvent({"Drag"}, {<<4, 2>>})

SpecDirty == InitDirty /\ [][NextDirty]_vars

\* what a repaint shows of the widget's state: the buffer, the offsets, the
\* selection, the search term, matches and current match, the wrap settings
\* and the focus
Shown(s) ==
    <<s.buffer, s.vertical_offset, s.horizontal_offset, s.selection, s.search_term,
      s.search_matches, s.current_match, s.wrap_lines, s.wrap_indent, s.is_focused>>

\* an operation other than draw that changes what is shown requests a redraw
ChangeRequestsRedraw ==
    (op'.name # "draw" /\ ~w'.panicked /\ Shown(w') # Shown(w)) => w'.redraw_requested

\* only draw takes a requested redraw back
RequestKeptUntilDraw ==
    (op'.name # "draw" /\ ~w'.panicked /\ w.redraw_requested) => w'.redraw_requested

\* a draw leaves need_draw() true only for a drag-scroll in progress
DrawCleans ==
    (op'.name = "draw" /\ ~w'.panicked) =>
        /\ ~w'.redraw_requested
        /\ need_draw(w') <=> (w'.mouse_is_down /\ w'.drag_direction # "None")

C18_ClearResets ==
    (op.name = "clear" /\ ~w.panicked) =>
        /\ w.buffer = <<>>
        /\ w.lengths = <<>>
        /\ w.wrapped_lines = <<>>
        /\ w.max_line_width = 0
        /\ w.vertical_offset = 0
        /\ w.horizontal_offset = 0
        /\ w.auto_scroll
        /\ w.search_term = <<>>
        /\ w.search_matches = <<>>
        /\ w.current_match = 0
        /\ ~w.selection.active
        /\ ~w.mouse_is_down

C18_Witness ==
    /\ op.name = "clear"
    /\ prev.buffer_len > 0
    /\ prev.selection.active
    /\ prev.mouse_is_down
    /\ prev.drag_direction # "None"
    /\ w.search_mode = "Input"
    /\ w.search_input.text # <<>>
    /\ ~w.wrap_lines


(***************************************************************************)
(* ConsoleWidget and the TracerWidget it holds, each fed through an        *)
(* unbounded channel.  In SpecQueue the variable w is the ConsoleWidget,   *)
(* prev is w before the last operation and hist holds the ids of the       *)
(* messages and of the commands sent so far, in the order of the sends.    *)
(* A message is [type, id, tab_names], a command [type, id, producer].     *)
(* logs is the sequence of <<tab, id>> entries added to the tabs; applied  *)
(* (a ghost field) lists the ids whose handling has completed.             *)
(***************************************************************************)
MessagesPerFrame == 100

CommandsPerFrame == 10

TracerWidgetNew ==
    [rx |-> <<>>, logs |-> <<>>, applied |-> <<>>, panicked |-> FALSE]

ConsoleWidgetNew(producers) ==
    [command_rx |-> <<>>, tracer_widget |-> TracerWidgetNew, applied |-> <<>>,
     producers |-> producers]

\* the entries of one Normal or External message, one for each of its tabs
EntriesOf(m) == [i \in 1..Len(m.tab_names) |-> <<m.tab_names[i], m.id>>]

\* one turn of the loop of process_messages on the message m just received;
\* with no tab name, tab_names.len() - 1 underflows: a panic with overflow
\* checks, without them a loop of usize::MAX clones that exhausts the memory
handle_message(t, m) ==
    IF m.type = "ClearTab"
    THEN [t EXCEPT !.logs = SelectSeq(@, LAMBDA e : e[1] # m.tab_names[1]),
                   !.applied = Append(@, m.id)]
    ELSE IF Len(m.tab_names) = 0
    THEN [t EXCEPT !.panicked = TRUE]
    ELSE [t EXCEPT !.logs = @ \o EntriesOf(m), !.applied = Append(@, m.id)]

RECURSIVE process_messages_from(_, _)
process_messages_from(t, turns) ==
    IF turns = 0 \/ t.rx = <<>> \/ t.panicked THEN t
    ELSE process_messages_from(handle_message([t EXCEPT !.rx = Tail(@)], Head(t.rx)),
                               turns - 1)

process_messages(t) == process_messages_from(t, MessagesPerFrame)

\* one turn of the loop of process_commands on the command just received
handle_command(c, command) ==
    IF command.type = "Clear"
    THEN [c EXCEPT !.tracer_widget.logs = SelectSeq(@, LAMBDA e : e[1] # "current"),
                   !.applied = Append(@, command.id)]
    ELSE [c EXCEPT !.tracer_widget.logs = Append(@, <<"current", command.id>>),
                   !.applied = Append(@, command.id)]

RECURSIVE process_commands_from(_, _)
process_commands_from(c, turns) ==
    IF turns = 0 \/ c.command_rx = <<>> THEN c
    ELSE process_commands_from(
             handle_command([c EXCEPT !.command_rx = Tail(@)], Head(c.command_rx)),
             turns - 1)

process_commands(c) == process_commands_from(c, CommandsPerFrame)

\* ConsoleWidget::preprocess: the commands, then the tracer's messages
console_preprocess(c) ==
    [process_commands(c) EXCEPT !.tracer_widget = process_messages(@)]

\* TracerWidget::preprocess of the tracer the console holds
tracer_preprocess(c) == [c EXCEPT !.tracer_widget = process_messages(@)]

(***************************************************************************)
(* SpecQueue.  The producers are either a flood of up to MaxFlood          *)
(* one-tab messages, or sources sending up to MaxMixed messages of every   *)
(* shape, or two command tasks sending up to MaxCommands commands.         *)
(***************************************************************************)
MaxFlood == 101

MaxMixed == 3

MaxCommands == 11

QueueProducers == {"flood", "sources", "tasks"}

MessageShapes ==
    {[type |-> "External", tab_names |-> <<>>],
     [type |-> "External", tab_names |-> <<"t">>],
     [type |-> "Normal", tab_names |-> <<"t", "u">>],
     [type |-> "ClearTab", tab_names |-> <<"t">>]}

QueueStep(name, c1) ==
    /\ ~w.tracer_widget.panicked
    /\ w' = c1
    /\ prev' = w
    /\ op' = [name |-> name, arg |-> <<>>]

InitQueue ==
    /\ \E producers \in QueueProducers : w = ConsoleWidgetNew(producers)
    /\ prev = w
    /\ op = NoOp
    /\ hist = [messages |-> <<>>, commands |-> <<>>]

\* tx.send(message) by the tracer callback or a registered source
SendMessage ==
    \E shape \in MessageShapes :
        /\ \/ w.producers = "flood" /\ Len(hist.messages) < MaxFlood
              /\ shape.tab_names = <<"t">> /\ shape.type = "External"
           \/ w.producers = "sources" /\ Len(hist.messages) < MaxMixed
        /\ QueueStep("send",
                     [w EXCEPT !.tracer_widget.rx =
                          Append(@, [type |-> shape.type, id |-> Len(hist.messages) + 1,
                                     tab_names |-> shape.tab_names])])
        /\ hist' = [hist EXCEPT !.messages = Append(@, Len(hist.messages) + 1)]

\* command_tx.send(command) by a spawned command task (1, sending lines) or a
\* command sender (2, sending Clear, one of its commands queued at a time)
SendCommand ==
    \E producer \in {1, 2}, type \in {"Lines", "Clear"} :
        /\ w.producers = "tasks"
        /\ Len(hist.commands) < MaxCommands
        /\ producer = 2 => type = "Clear" /\ \A c \in 1..Len(w.command_rx) :
                                                  w.command_rx[c].producer = 1
        /\ producer = 1 => type = "Lines"
        /\ QueueStep("send_command",
                     [w EXCEPT !.command_rx =
                          Append(@, [type |-> type, id |-> Len(hist.commands) + 1,
                                     producer |-> producer])])
        /\ hist' = [hist EXCEPT !.commands = Append(@, Len(hist.commands) + 1)]

TracerPreprocess ==
    /\ QueueStep("TracerWidget::preprocess", tracer_preprocess(w))
    /\ UNCHANGED hist

ConsolePreprocess ==
    /\ QueueStep("ConsoleWidget::preprocess", console_preprocess(w))
    /\ UNCHANGED hist

NextQueue ==
    \/ SendMessage
    \/ SendCommand
    \/ TracerPreprocess
    \/ ConsolePreprocess

SpecQueue == InitQueue /\ [][NextQueue]_vars

Ids(queue) == [i \in 1..Len(queue) |-> queue[i].id]

\* every message and command sent has been applied once, in the order of the
\* sends, or is still queued behind those applied
AppliedThenQueued ==
    /\ hist.messages = w.tracer_widget.applied \o Ids(w.tracer_widget.rx)
    /\ hist.commands = w.applied \o Ids(w.command_rx)

\* what the last preprocess call took from the queues
MessagesConsumed == Len(prev.tracer_widget.rx) - Len(w.tracer_widget.rx)

CommandsConsumed == Len(prev.command_rx) - Len(w.command_rx)

\* C19: with producers sending concurrently, a TracerWidget::preprocess call
\* consumes at most 100 queued messages and a ConsoleWidget::preprocess call
\* at most 10 queued commands; the messages are applied in the order they
\* were sent, the rest stays queued, and every message consumed is applied
\* exactly once.
C19_QueuesDrainInOrder ==
    /\ AppliedThenQueued
    /\ op.name = "TracerWidget::preprocess" =>
           MessagesConsumed = Min(Len(prev.tracer_widget.rx), MessagesPerFrame)
    /\ op.name = "ConsoleWidget::preprocess" =>
           /\ CommandsConsumed = Min(Len(prev.command_rx), CommandsPerFrame)
           /\ MessagesConsumed <= MessagesPerFrame


(***************************************************************************)
(* Drag-scroll ticks.                                                      *)
(***************************************************************************)
\* the render tick now due performs a scroll step
ScrollStepDue(s) ==
    /\ ~s.panicked
    /\ is_drag_scrolling(s)
    /\ s.last_mouse_pos # None
    /\ Bind(perform_drag_scroll(s),
            LAMBDA s1 : \/ s1.vertical_offset # s.vertical_offset
                        \/ s1.horizontal_offset # s.horizontal_offset)

\* the buffer position under the last known pointer position, a pointer
\* outside the content area taken to the nearest cell of it
PointerPosition(s) ==
    IF ContentHeight(s) = 0 \/ ContentEndX(s) <= ContentStartX(s) THEN None
    ELSE screen_to_buffer_position(
             s,
             Max(ContentStartX(s), Min(s.last_mouse_pos[1][1], ContentEndX(s) - 1)),
             Max(Inner(s.last_area).y,
                 Min(s.last_mouse_pos[1][2],
                     Inner(s.last_area).y + ContentHeight(s) - 1)))

SelectionEndAtPointer(s) ==
    Bind(PointerPosition(s),
         LAMBDA p : p # None => s.selection.end = Pos(p[1][1], p[1][2]))

\* C20: while the mouse is down with a drag direction and no further mouse
\* event arrives, a render tick that performs a scroll step leaves the
\* selection end at the buffer position now under the last known pointer
\* position, in every edge zone, the pointer outside the content area above,
\* below or left of it included.
C20_TickMovesSelectionEnd ==
    ScrollStepDue(w) =>
        Bind(draw(w, w.last_area),
             LAMBDA s1 : s1.panicked \/ SelectionEndAtPointer(s1))

(***************************************************************************)
(* SpecRamp: a selection drag held below the content of a widget of        *)
(* sixteen lines scrolled to the top, with render ticks arriving one or    *)
(* two units of time apart.  hist is the time, in units, for which the     *)
(* controller has been scrolling in its present direction.                 *)
(***************************************************************************)
RampLines == [i \in 1..16 |-> <<"a">>]

RampAreas == {AreaOf(6, 1)}

\* the press is on a content cell, the drag goes to the cell below the content
RampMouse == {<<"Down", <<4, 1>>>>, <<"Drag", <<5, 2>>>>}

\* a render tick comes 50 ms or 100 ms after the one before
FrameUnits == {1, 2}

\* the scrolling time after an operation that took units of time
ScrollingFor(units) ==
    IF w'.drag_direction = "None" \/ w'.drag_direction # w.drag_direction THEN 0
    ELSE Min(hist + units, MaxElapsed)

InitRamp ==
    /\ w = draw(add_styled_lines(NewWidget(16, 0), RampLines), AreaOf(6, 1))
    /\ prev = Snapshot(w)
    /\ op = NoOp
    /\ hist = 0

RampScrollToTop ==
    /\ Step("scroll_to_top", <<>>, scroll_to_top(w))
    /\ hist' = ScrollingFor(0)

RampMouseEvent ==
    \E m \in RampMouse :
        /\ Step("mouse_event", m, mouse_event(w, m[1], m[2][1], m[2][2], FALSE))
        /\ hist' = ScrollingFor(0)

\* the render loop's frame: draw, units of time after the last operation
RenderTick ==
    \E units \in FrameUnits, area \in RampAreas :
        /\ is_drag_scrolling(w)
        /\ Step("render_tick", <<units, area>>, draw(tick(w, units), area))
        /\ hist' = ScrollingFor(units)

NextRamp ==
    \/ RampScrollToTop
    \/ RampMouseEvent
    \/ RenderTick

SpecRamp == InitRamp /\ [][NextRamp]_vars

\* the interval the controller is to keep after scrolling for ms milliseconds
RampInterval(ms) == IF ms > DRAG_ACCEL_AFTER THEN DRAG_SPEED_FAST ELSE DRAG_SPEED_SLOW

\* C21: under a drag held in the bottom edge zone with render ticks at most
\* 100 ms apart and lines left below the viewport, a render tick scrolls
\* exactly when the time since the last step (or since the zone was entered)
\* has reached the interval in force: 150 ms while the controller has been
\* scrolling for at most 500 ms, 50 ms once it has been scrolling for longer.
C21_RampUp ==
    [][(/\ op'.name = "render_tick"
        /\ w.drag_direction = "Down"
        /\ w.drag_scroll_timer # None
        /\ w.vertical_offset < max_scroll_position(w))
           => ((w'.vertical_offset > w.vertical_offset)
                  <=> (Elapsed(tick(w, op'.arg[1]))
                          >= RampInterval((hist + op'.arg[1]) * TimeUnitMs)))]_vars

\* C21, the slow tier alone: while the controller has been scrolling for at
\* most 500 ms a render tick scrolls exactly when 150 ms have passed since
\* the last step.
C21_SlowTier ==
    [][(/\ op'.name = "render_tick"
        /\ w.drag_direction = "Down"
        /\ w.drag_scroll_timer # None
        /\ w.vertical_offset < max_scroll_position(w)
        /\ (hist + op'.arg[1]) * TimeUnitMs <= DRAG_ACCEL_AFTER)
           => ((w'.vertical_offset > w.vertical_offset)
                  <=> (Elapsed(tick(w, op'.arg[1])) >= DRAG_SPEED_SLOW))]_vars

(***************************************************************************)
(* SpecFault: a widget of two lines, wrapping or not, drawn in areas with  *)
(* no width, no height or no room inside the border as well as in a usual  *)
(* one, searched, scrolled and clicked.                                    *)
(***************************************************************************)
FaultLines == {<<>>, <<"o">>}

\* an empty area, areas whose inner rectangle is 0x1 and 1x0, and a 4x1 one
FaultAreas == {Rect(0, 0, 0, 0), Rect(0, 0, 2, 3), Rect(0, 0, 3, 2), AreaOf(4, 1)}

FaultKeys == {CharKey("/", FALSE), CharKey("o", FALSE), Key("Enter", FALSE)}

InitFault ==
    /\ \E first \in FaultLines, wrap_lines \in BOOLEAN :
           w = add_styled_lines(set_wrap_lines(NewWidget(MaxCap, 0), wrap_lines),
                                <<first, <<"o">>>>)
    /\ prev = Snapshot(w)
    /\ op = NoOp
    /\ hist = None

NextFault ==
    \/ Draw(FaultAreas)
    \/ SearchKeyEvent(FaultKeys)
    \/ ScrollUp({1})
    \/ ScrollDown({1})
    \/ Clear
    \/ MouseEvent({"Down"}, {<<0, 0>>})

SpecFault == InitFault /\ [][NextFault]_vars

\* C22: no entry point of the widget (draw, key_event, mouse_event, scroll_up,
\* scroll_down, clear) reaches an arithmetic or indexing fault, whatever the
\* viewport area (zero width or height, smaller than the border), also with
\* an empty buffer and in every search mode.
C22_NoFault == ~w.panicked

(***************************************************************************)
(* Tui::run, the frame loop.  In SpecRun w is the state of one call of     *)
(* run: pc is its position, key_handler the input handler (None, or Some   *)
(* of "idle", "running" or "stopped"), events what flush_events returned,  *)
(* last_size the terminal size at the last render and result the value     *)
(* returned.  prev is w before the last step.  hist records the iteration  *)
(* under way: the app callbacks made in it (calls), what should_quit and   *)
(* should_draw answered, what was flushed and whether the size changed;    *)
(* frames counts the iterations completed and last_calls is calls of the   *)
(* iteration before.                                                       *)
(***************************************************************************)
MaxFrames == 2

TerminalSizes == {<<80, 24>>, <<100, 24>>}

\* what flush_events can return: key events, mouse events, both or None
FlushedEvents ==
    {None, Some([keys |-> TRUE, mouse |-> FALSE]), Some([keys |-> FALSE, mouse |-> TRUE]),
     Some([keys |-> TRUE, mouse |-> TRUE])}

TuiNew(key_capture) ==
    [pc |-> "setup",
     key_handler |-> IF key_capture THEN Some("idle") ELSE None,
     events |-> None,
     last_size |-> <<0, 0>>,
     result |-> None]

NewFrame(frames, last_calls) ==
    [calls |-> <<>>, quit |-> FALSE, flushed |-> None, should_draw |-> FALSE,
     frame_changed |-> FALSE, frames |-> frames, last_calls |-> last_calls]

\* the render condition with the size change left out
must_render_DrawOnly(should_draw, frame_changed) == should_draw

\* run: app.should_draw() || frame_changed
must_render(should_draw, frame_changed) == should_draw \/ frame_changed

\* the position after the events were flushed and the key events handled
AfterKeys(events) ==
    IF events # None /\ events[1].mouse THEN "handle_mouse_events" ELSE "should_draw"

AfterFlush(events) ==
    IF events # None /\ events[1].keys THEN "handle_key_events" ELSE AfterKeys(events)

RunStep(name, arg, t1) ==
    /\ w' = t1
    /\ prev' = w
    /\ op' = [name |-> name, arg |-> arg]

Called(name) == [hist EXCEPT !.calls = Append(@, name)]

InitRun ==
    /\ \E key_capture \in BOOLEAN : w = TuiNew(key_capture)
    /\ prev = w
    /\ op = NoOp
    /\ hist = NewFrame(0, <<>>)

\* the terminal is set up and the input handler started; either can fail
RunSetup ==
    \E ok \in BOOLEAN :
        /\ w.pc = "setup"
        /\ RunStep("setup", ok,
                   IF ok
                   THEN [w EXCEPT !.pc = "should_quit",
                                  !.key_handler = IF @ = None THEN None ELSE Some("running")]
                   ELSE [w EXCEPT !.pc = "returned", !.result = Some("Err")])
        /\ UNCHANGED hist

\* the head of an iteration: app.should_quit()
RunShouldQuit ==
    \E quit \in BOOLEAN :
        /\ w.pc = "should_quit"
        /\ hist.frames < MaxFrames \/ quit
        /\ RunStep("should_quit", quit,
                   [w EXCEPT !.pc = IF quit THEN "stop" ELSE "before_frame"])
        /\ hist' = [NewFrame(hist.frames, hist.calls) EXCEPT !.calls = <<"should_quit">>,
                                                 !.quit = quit]

\* app.before_frame, then handler.flush_events()
RunBeforeFrame ==
    \E events \in IF w.key_handler = None THEN {None} ELSE FlushedEvents :
        /\ w.pc = "before_frame"
        /\ RunStep("before_frame", events,
                   [w EXCEPT !.pc = AfterFlush(events), !.events = events])
        /\ hist' = [Called("before_frame") EXCEPT !.flushed = events]

RunHandleKeyEvents ==
    /\ w.pc = "handle_key_events"
    /\ RunStep("handle_key_events", <<>>, [w EXCEPT !.pc = AfterKeys(w.events)])
    /\ hist' = Called("handle_key_events")

RunHandleMouseEvents ==
    /\ w.pc = "handle_mouse_events"
    /\ RunStep("handle_mouse_events", <<>>, [w EXCEPT !.pc = "should_draw"])
    /\ hist' = Called("handle_mouse_events")

\* terminal.size() (the last size when it fails), then app.should_draw()
RunShouldDraw ==
    \E size \in TerminalSizes \cup {w.last_size}, should_draw \in BOOLEAN :
        /\ w.pc = "should_draw"
        /\ RunStep("should_draw", <<size, should_draw>>,
                   IF must_render(should_draw, size # w.last_size)
                   THEN [w EXCEPT !.pc = "render", !.last_size = size]
                   ELSE [w EXCEPT !.pc = "after_frame"])
        /\ hist' = [hist EXCEPT !.should_draw = should_draw,
                                !.frame_changed = (size # w.last_size)]

\* terminal.draw(|frame| app.render(frame))?
RunRender ==
    \E ok \in BOOLEAN :
        /\ w.pc = "render"
        /\ RunStep("render", ok,
                   IF ok THEN [w EXCEPT !.pc = "after_frame"]
                   ELSE [w EXCEPT !.pc = "returned", !.result = Some("Err")])
        /\ hist' = Called("render")

\* app.after_frame, then the sleep to the end of the frame
RunAfterFrame ==
    /\ w.pc = "after_frame"
    /\ RunStep("after_frame", <<>>, [w EXCEPT !.pc = "should_quit", !.events = None])
    /\ hist' = [Called("after_frame") EXCEPT !.frames = @ + 1]

\* after the loop: handler.stop(), then the terminal is restored, which can fail
RunStop ==
    \E ok \in BOOLEAN :
        /\ w.pc = "stop"
        /\ RunStep("stop", ok,
                   [w EXCEPT !.pc = "returned",
                             !.key_handler = IF @ = None THEN None ELSE Some("stopped"),
                             !.result = Some(IF ok THEN "Ok" ELSE "Err")])
        /\ UNCHANGED hist

NextRun ==
    \/ RunSetup
    \/ RunShouldQuit
    \/ RunBeforeFrame
    \/ RunHandleKeyEvents
    \/ RunHandleMouseEvents
    \/ RunShouldDraw
    \/ RunRender
    \/ RunAfterFrame
    \/ RunStop

SpecRun == InitRun /\ [][NextRun]_vars

\* the order of the app callbacks within an iteration
CallbackOrder ==
    <<"should_quit", "before_frame", "handle_key_events", "handle_mouse_events",
      "render", "after_frame">>

Rank(name) == CHOOSE i \in 1..Len(CallbackOrder) : CallbackOrder[i] = name

WasCalled(name) == \E i \in 1..Len(hist.calls) : hist.calls[i] = name

\* C23: in every iteration of run should_quit is called exactly once and
\* first; the callbacks made are in the order before_frame, handle_key_events,
\* handle_mouse_events, render, after_frame, each at most once; the event
\* handlers are called only for events that were flushed and render only when
\* should_draw answered true or the terminal size changed; an iteration that
\* reaches its end has called before_frame, after_frame, the handlers of all
\* flushed events and, if it had to, render; once should_quit answers true no
\* other callback is made, the input handler is stopped and run returns.
C23_FrameOrder ==
    /\ \A i \in 1..Len(hist.calls) : (hist.calls[i] = "should_quit") <=> (i = 1)
    /\ \A i, j \in 1..Len(hist.calls) :
           i < j => Rank(hist.calls[i]) < Rank(hist.calls[j])
    /\ WasCalled("handle_key_events") => hist.flushed # None /\ hist.flushed[1].keys
    /\ WasCalled("handle_mouse_events") => hist.flushed # None /\ hist.flushed[1].mouse
    /\ WasCalled("render") => hist.should_draw \/ hist.frame_changed
    /\ WasCalled("after_frame")
           => /\ WasCalled("before_frame")
              /\ (hist.flushed # None /\ hist.flushed[1].keys)
                     => WasCalled("handle_key_events")
              /\ (hist.flushed # None /\ hist.flushed[1].mouse)
                     => WasCalled("handle_mouse_events")
              /\ (hist.should_draw \/ hist.frame_changed) => WasCalled("render")
    /\ hist.quit
           => /\ hist.calls = <<"should_quit">>
              /\ w.pc \in {"stop", "returned"}
              /\ w.pc = "returned" => w.key_handler \in {None, Some("stopped")}
    /\ w.result = Some("Ok") => hist.quit

\* an iteration that made every callback, followed by one in which
\* should_quit answered true: run has returned with the handler stopped
C23_Witness ==
    /\ w.pc = "returned"
    /\ w.result = Some("Ok")
    /\ w.key_handler = Some("stopped")
    /\ hist.quit
    /\ hist.calls = <<"should_quit">>
    /\ hist.last_calls = CallbackOrder

(***************************************************************************)
(* SpecStyle: the line "aaa" drawn in three content columns, searched for  *)
(* "a" and "aa" (whose occurrences overlap), the current match moved with  *)
(* n, and characters selected with the mouse.                              *)
(***************************************************************************)
StyleKeys == {CharKey("/", FALSE), CharKey("a", FALSE), Key("Enter", FALSE),
              CharKey("n", FALSE)}

InitStyle ==
    /\ \E wrap_lines \in BOOLEAN :
           w = draw(add_styled_line(set_wrap_lines(NewWidget(1, 0), wrap_lines),
                                    <<"a", "a", "a">>),
                    AreaOf(6, 1))
    /\ prev = Snapshot(w)
    /\ op = NoOp
    /\ hist = None

NextStyle ==
    \/ Draw({AreaOf(6, 1)})
    \/ SearchKeyEvent(StyleKeys)
    \/ MouseEvent({"Down"}, {<<4, 1>>})
    \/ MouseEvent({"Drag"}, {<<5, 1>>})

SpecStyle == InitStyle /\ [][NextStyle]_vars

\* does the match search_matches[k] (counted from 0) hold the character?
InMatch(s, k, line_idx, char_idx) ==
    /\ k < Len(s.search_matches)
    /\ s.search_matches[k + 1][1] = line_idx
    /\ char_idx >= s.search_matches[k + 1][2]
    /\ char_idx < s.search_matches[k + 1][2] + Len(s.search_term)

\* the style the character is to get
StyleDue(s, line_idx, char_idx) ==
    IF contains_position(s.selection, line_idx, char_idx) THEN "selection"
    ELSE IF ~search_is_active(s) \/ s.search_term = <<>> THEN "own"
    ELSE IF InMatch(s, s.current_match, line_idx, char_idx) THEN "current"
    ELSE IF \E k \in 0..(Len(s.search_matches) - 1) : InMatch(s, k, line_idx, char_idx)
    THEN "match"
    ELSE "own"

\* C24: every character drawn gets the selection style if it is selected;
\* otherwise, with a search under way, the current-match style if it lies
\* inside the current match, the match style if it lies inside another match
\* only, and its own style if it lies in none, also when matches overlap.
C24_StyleByMatch ==
    (op.name = "draw" /\ ~w.panicked)
        => \A p \in DrawnChars(w) : char_style(w, p[1], p[2]) = StyleDue(w, p[1], p[2])

(***************************************************************************)
(* SpecThumb: six lines in a viewport of three rows, scrolled by one line  *)
(* at a time and by pressing, dragging and releasing the mouse on the      *)
(* vertical scrollbar (track of three cells, thumb of one).                *)
(***************************************************************************)
ThumbLines == [i \in 1..6 |-> <<"a">>]

ThumbAreas == {AreaOf(4, 3)}

\* the cells of the vertical scrollbar: the last column, rows 1..3
ThumbPoints == {<<5, 1>>, <<5, 2>>, <<5, 3>>}

InitThumb ==
    /\ w = draw(add_styled_lines(NewWidget(6, 0), ThumbLines), AreaOf(4, 3))
    /\ prev = Snapshot(w)
    /\ op = NoOp
    /\ hist = None

NextThumb ==
    \/ Draw(ThumbAreas)
    \/ ScrollUp({1})
    \/ ScrollDown({1})
    \/ MouseEvent({"Down", "Drag", "Up"}, ThumbPoints)

SpecThumb == InitThumb /\ [][NextThumb]_vars

\* the widget after the left button is pressed at pt and a Drag event comes
\* at the same cell
PressThenDrag(s, pt) ==
    mouse_event(mouse_event(s, "Down", pt[1], pt[2], FALSE), "Drag", pt[1], pt[2], FALSE)

\* C25: pressing the left button on the vertical scrollbar thumb and then
\* receiving a Drag event at the same row leaves the thumb start computed by
\* get_vertical_thumb_position where it was before the press.
C25_ThumbStaysPut ==
    \A pt \in ThumbPoints :
        is_point_in_vertical_thumb(w, pt[1], pt[2])
            => get_vertical_thumb_position(PressThenDrag(w, pt))[1]
                   = get_vertical_thumb_position(w)[1]

(***************************************************************************)
(* SpecShift: a widget of capacity three holding three lines, two of them  *)
(* in view, with characters of the lines in view selected by press and     *)
(* drag while single lines and batches are appended.                       *)
(***************************************************************************)
ShiftLines == {<<"c">>}

\* inner rectangle 6x2 at (1, 1): content columns 4..6, rows 1..2
ShiftAreas == {AreaOf(6, 2)}

ShiftPoints == {<<4, 1>>, <<5, 1>>, <<5, 2>>}

InitShift ==
    /\ \E wrap_lines \in BOOLEAN :
           w = draw(add_styled_lines(set_wrap_lines(NewWidget(3, 0), wrap_lines),
                                     <<<<"a", "b">>, <<"a", "b">>, <<"a", "b">>>>),
                    AreaOf(6, 2))
    /\ prev = Snapshot(w)
    /\ op = NoOp
    /\ hist = None

NextShift ==
    \/ AddStyledLine(ShiftLines)
    \/ AddStyledLines(ShiftLines)
    \/ Draw(ShiftAreas)
    \/ MouseEvent({"Down", "Drag"}, ShiftPoints)

SpecShift == InitShift /\ [][NextShift]_vars

RewrapLines == {<<"a", " ", "b", "c", "d">>, <<"a", "b">>}

RewrapIndents == {0, 2}

\* content widths 1 and 3
RewrapAreas == {AreaOf(4, 1), AreaOf(6, 2)}

WrapFields(s) ==
    [wrapped_lines |-> s.wrapped_lines,
     wrapped_lines_width |-> s.wrapped_lines_width,
     wrap_indent |-> s.wrap_indent,
     buffer |-> s.buffer]

RewrapStep(name, arg, s1) ==
    /\ Step(name, arg, s1)
    /\ hist' = WrapFields(w)

InitRewrap ==
    /\ w = NewWidget(MaxCap, 0)
    /\ prev = Snapshot(w)
    /\ op = NoOp
    /\ hist = WrapFields(w)

RewrapAppend ==
    \E line \in RewrapLines : RewrapStep("add_styled_line", <<line>>, add_styled_line(w, line))

RewrapDraw == \E area \in RewrapAreas : RewrapStep("draw", area, draw(w, area))

SetWrapIndent ==
    \E wrap_indent \in RewrapIndents :
        RewrapStep("set_wrap_indent", wrap_indent, set_wrap_indent(w, wrap_indent))

NextRewrap ==
    \/ RewrapAppend
    \/ RewrapDraw
    \/ SetWrapIndent

SpecRewrap == InitRewrap /\ [][NextRewrap]_vars

\* C27: after every draw in wrap mode with content width >= 1 the wrap table
\* is the wrap of the buffer as it is now at the content width and indent as
\* they are now, whatever came before the draw: another width, another
\* indent, appends that changed the number of lines, or an append at capacity
\* that left the number of lines as it was.
C27_WrapTableIsCurrent ==
    (op.name = "draw" /\ w.wrap_lines /\ ContentWidth(w) >= 1 /\ ~w.panicked)
        => w.wrapped_lines = WrapFrom(w.buffer, 0, ContentWidth(w), w.wrap_indent)

\* a draw that found a table made at the same width and indent for as many
\* lines as the buffer holds, and yet not the wrap of the buffer: a line was
\* evicted and another appended since the table was made
C27_Witness ==
    /\ op.name = "draw"
    /\ w.wrap_lines
    /\ ContentWidth(w) = 3
    /\ hist.wrapped_lines_width = 3
    /\ hist.wrap_indent = w.wrap_indent
    /\ hist.buffer = w.buffer
    /\ hist.wrapped_lines # <<>>
    /\ Last(hist.wrapped_lines)[1] + 1 = Len(w.buffer)
    /\ hist.wrapped_lines # w.wrapped_lines
    /\ Len(w.buffer) = w.line_capacity

\* the largest length among lines, 0 when there are none
RECURSIVE LongestOf(_)
LongestOf(lines) ==
    IF lines = <<>> THEN 0 ELSE Max(Len(lines[1]), LongestOf(Tail(lines)))

\* C28: max_line_width is the largest length among all the lines passed to
\* add_styled_line and add_styled_lines since the last clear (since
\* construction when there was none), be they still in the buffer, evicted
\* since, or dropped from a batch larger than the capacity; it is 0 after
\* clear.
C28_MaxWidthIsHighWater ==
    (hist # None /\ ~w.panicked) => w.max_line_width = LongestOf(hist[1])

\* C28 without the lines dropped from a batch: max_line_width never decreases
\* from one append to the next, is at least the length of every line in the
\* buffer and at most the length of the longest line passed, and is 0 after
\* clear.
C28_MaxWidthGrows ==
    [][/\ op'.name \in Appends => w'.max_line_width >= w.max_line_width
       /\ op'.name = "clear" => w'.max_line_width = 0
       /\ \A i \in 1..Len(w'.buffer) : Len(w'.buffer[i]) <= w'.max_line_width
       /\ hist' # None => w'.max_line_width <= LongestOf(hist'[1])]_vars

(***************************************************************************)
(* SpecClip: the widget of SpecCopy with copy_selection called directly    *)
(* and through Ctrl+C, on a platform whose clipboard works, cannot be      *)
(* opened or cannot be written.  hist is the content of the clipboard.     *)
(***************************************************************************)
Platforms == {"ok", "unavailable", "write_fails"}

ClipKeys == {CharKey("a", TRUE), CharKey("c", TRUE)}

InitClip ==
    /\ \E wrap_lines \in BOOLEAN, first \in CopyFirstLines :
           w = add_styled_lines(set_wrap_lines(NewWidget(MaxCap, 0), wrap_lines),
                                <<first, <<"b">>>>)
    /\ prev = Snapshot(w)
    /\ op = NoOp
    /\ hist = None

ClipDraw ==
    \E area \in CopyAreas :
        /\ Step("draw", area, draw(w, area))
        /\ UNCHANGED hist

ClipMouseEvent ==
    \E kind \in SelectMouseKinds, pt \in CopyPoints :
        /\ Step("mouse_event", <<kind, pt>>, mouse_event(w, kind, pt[1], pt[2], FALSE))
        /\ UNCHANGED hist

\* a key pressed; Ctrl+C calls copy_selection
ClipKeyEvent ==
    \E key \in ClipKeys, platform \in Platforms :
        /\ Step("key_event", <<key, platform>>, key_event(w, key))
        /\ hist' = IF key = CharKey("c", TRUE)
                   THEN copy_selection_clipboard(w, platform, hist)
                   ELSE hist

\* copy_selection called by the widget's owner: it takes &self
CopySelection ==
    \E platform \in Platforms :
        /\ Step("copy_selection", <<platform, copy_selection(w)>>, w)
        /\ hist' = copy_selection_clipboard(w, platform, hist)

NextClip ==
    \/ ClipDraw
    \/ ClipMouseEvent
    \/ ClipKeyEvent
    \/ CopySelection

SpecClip == InitClip /\ [][NextClip]_vars

\* C29: copy_selection returns true exactly when get_selected_text returns
\* Some, whatever the platform clipboard does; it leaves the widget as it
\* was and raises no error; the clipboard is left untouched when nothing is
\* selected and when it cannot be opened or written, and holds the selected
\* text when it can.
C29_CopyReportsSelection ==
    [][op'.name = "copy_selection"
          => /\ op'.arg[2] <=> (get_selected_text(w) # None)
             /\ w' = w
             /\ ~w'.panicked
             /\ (get_selected_text(w) = None \/ op'.arg[1] # "ok") => hist' = hist
             /\ (get_selected_text(w) # None /\ op'.arg[1] = "ok")
                    => hist' = get_selected_text(w)]_vars

\* copy_selection answered true for a selection of text on a platform without
\* a clipboard, and the clipboard still holds what an earlier copy put there
C29_Witness ==
    /\ op.name = "copy_selection"
    /\ op.arg = <<"unavailable", TRUE>>
    /\ get_selected_text(w) # None
    /\ hist # None
    /\ hist # get_selected_text(w)

\* C30: scroll_up(n) with n >= 1, called when vertical_offset is v > 0, leaves
\* vertical_offset at v - min(n, v) and auto_scroll false, whatever auto_scroll
\* was before the call.
C30_ScrollUpMoves ==
    [][(op'.name = "scroll_up" /\ op'.arg >= 1 /\ w.vertical_offset > 0)
          => /\ w'.vertical_offset = w.vertical_offset - Min(op'.arg, w.vertical_offset)
             /\ ~w'.auto_scroll]_vars

\* C30 with auto_scroll off before the call: the offset moves up by
\* min(n, v) and auto_scroll stays off.
C30_ScrollUpMovesWhenManual ==
    [][(op'.name = "scroll_up" /\ op'.arg >= 1 /\ w.vertical_offset > 0 /\ ~w.auto_scroll)
          => /\ w'.vertical_offset = w.vertical_offset - Min(op'.arg, w.vertical_offset)
             /\ ~w'.auto_scroll]_vars

\* C31: scroll_to_top(), called in any state, leaves vertical_offset at 0; and
\* when the content is taller than the viewport, auto_scroll is false after it.
C31_ScrollToTopReachesTop ==
    [][op'.name = "scroll_to_top"
          => /\ w'.vertical_offset = 0
             /\ (max_scroll_position(w') > 0 => ~w'.auto_scroll)]_vars

\* C31 with auto_scroll off before the call: the viewport is at the top and
\* auto_scroll stays off.
C31_ScrollToTopWhenManual ==
    [][(op'.name = "scroll_to_top" /\ ~w.auto_scroll)
          => /\ w'.vertical_offset = 0
             /\ ~w'.auto_scroll]_vars


(***************************************************************************)
(* SpecFollow: a widget of capacity 3 that follows its tail: one-character *)
(* and three-character lines are appended, the widget is drawn one and two *)
(* rows high, toggled between wrap and clipped mode (set_wrap_lines, F11)  *)
(* and scrolled by key and by mouse wheel.                                 *)
(***************************************************************************)
FollowLines == {<<"a">>, <<"a", "b", "c">>}

\* inner rectangles 4x1 (content width 1) and 6x2 (content width 3)
FollowAreas == {AreaOf(4, 1), AreaOf(6, 2)}

FollowKeys == {Key("F11", FALSE), Key("Up", FALSE), Key("Down", FALSE), Key("End", FALSE)}

FollowWheel == {"ScrollUp", "ScrollDown"}

InitFollow ==
    /\ w = NewWidget(3, 0)
    /\ prev = Snapshot(w)
    /\ op = NoOp
    /\ hist = None

NextFollow ==
    \/ AddStyledLine(FollowLines)
    \/ Draw(FollowAreas)
    \/ SetWrapLines
    \/ KeyEvent(FollowKeys)
    \/ MouseEvent(FollowWheel, {<<4, 1>>})

SpecFollow == InitFollow /\ [][NextFollow]_vars

\* C32: in every state reached after a public operation (append, key event,
\* mouse event, wrap toggle, draw), auto_scroll implies vertical_offset =
\* max_scroll_position(); also after a wrap toggle made with lines appended
\* since the last draw, and after the draw that follows.
C32_AutoScrollAtBottom ==
    (w.auto_scroll /\ ~w.panicked) => w.vertical_offset = max_scroll_position(w)

\* C32 in wrap mode: after a draw that renders the wrapped lines, auto_scroll
\* implies vertical_offset = max_scroll_position().
C32_AutoScrollAtBottomWrapped ==
    (/\ op.name = "draw"
     /\ w.wrap_lines
     /\ w.auto_scroll
     /\ ~w.panicked)
        => w.vertical_offset = max_scroll_position(w)


\* whether (line, char_idx) is a position of the buffer
ValidPosition(s, p) ==
    /\ p.line < Len(s.buffer)
    /\ p.char_idx <= Len(s.buffer[p.line + 1])

\* C33: whenever the selection is active, both endpoints are valid buffer
\* positions: start.line and end.line are below buffer.len() and each
\* char_idx is at most the length of its line; in clipped and in wrap mode,
\* also for a mouse event that arrives after an append and before the draw.
C33_SelectionInBuffer ==
    (w.selection.active /\ ~w.panicked)
        => /\ ValidPosition(w, w.selection.start)
           /\ ValidPosition(w, w.selection.end)


(***************************************************************************)
(* SpecValid: a widget of capacity two holding two three-character lines,  *)
(* both in view, with shorter lines appended (each evicting a line) while  *)
(* text is selected by press and drag, before and after the next draw.     *)
(***************************************************************************)
ValidLines == {<<"a">>}

\* inner rectangle 6x2 at (1, 1): content columns 4..6, rows 1..2
ValidAreas == {AreaOf(6, 2)}

ValidPoints == {<<4, 1>>, <<6, 1>>, <<6, 2>>}

InitValid ==
    /\ \E wrap_lines \in BOOLEAN :
           w = draw(add_styled_lines(set_wrap_lines(NewWidget(2, 0), wrap_lines),
                                     <<<<"a", "b", "c">>, <<"a", "b", "c">>>>),
                    AreaOf(6, 2))
    /\ prev = Snapshot(w)
    /\ op = NoOp
    /\ hist = None

NextValid ==
    \/ AddStyledLine(ValidLines)
    \/ Draw(ValidAreas)
    \/ MouseEvent({"Down", "Drag"}, ValidPoints)

SpecValid == InitValid /\ [][NextValid]_vars


\* C33 in clipped mode: the endpoints of an active selection are valid
\* buffer positions.
C33_SelectionInBufferClipped ==
    (w.selection.active /\ ~w.panicked /\ ~w.wrap_lines)
        => /\ ValidPosition(w, w.selection.start)
           /\ ValidPosition(w, w.selection.end)


\* C34: whenever search_matches is non-empty, current_match is below
\* search_matches.len(); after every sequence of term changes, jumps to the
\* next and the previous match and appends, also appends that evict lines
\* holding matches while the search is active.
C34_CurrentMatchInRange ==
    (w.search_matches # <<>> /\ ~w.panicked) => w.current_match < Len(w.search_matches)


(***************************************************************************)
(* SpecMatch: a drawn widget of capacity two, in wrap or clipped mode,     *)
(* searched for "o" (the term typed, Enter, n and N) while lines with and  *)
(* without a match are appended, each evicting a line once the buffer is   *)
(* full.                                                                   *)
(***************************************************************************)
MatchLines == {<<"o">>, <<"a">>}

MatchKeys ==
    {CharKey("/", FALSE), CharKey("o", FALSE), CharKey("n", FALSE), CharKey("N", FALSE),
     Key("Backspace", FALSE), Key("Enter", FALSE)}

InitMatch ==
    /\ \E wrap_lines \in BOOLEAN :
           w = draw(set_wrap_lines(NewWidget(2, 0), wrap_lines), AreaOf(6, 1))
    /\ prev = Snapshot(w)
    /\ op = NoOp
    /\ hist = None

NextMatch ==
    \/ AddStyledLine(MatchLines)
    \/ Draw({AreaOf(6, 1)})
    \/ SearchKeyEvent(MatchKeys)

SpecMatch == InitMatch /\ [][NextMatch]_vars

\* C34 for the search keys: after a key event, current_match is below
\* search_matches.len() whenever it was before the key.
C34_KeysKeepCurrentMatchInRange ==
    [][(/\ op'.name = "key_event"
        /\ ~w'.panicked
        /\ (w.search_matches # <<>> => w.current_match < Len(w.search_matches))
        /\ w'.search_matches # <<>>)
           => w'.current_match < Len(w'.search_matches)]_vars


(***************************************************************************)
(* SpecReopen: a widget of capacity two searched for "o" while lines with  *)
(* and without a match are appended: '/' opens or focuses the search box,  *)
(* Enter unfocuses it, Esc clears the search, Ctrl+Esc closes the box and  *)
(* keeps the term.                                                         *)
(***************************************************************************)
ReopenLines == {<<"o">>, <<"a">>}

ReopenKeys ==
    {CharKey("/", FALSE), CharKey("o", FALSE), Key("Backspace", FALSE),
     Key("Enter", FALSE), Key("Esc", FALSE), Key("Esc", TRUE)}

InitReopen ==
    /\ w = NewWidget(2, 0)
    /\ prev = Snapshot(w)
    /\ op = NoOp
    /\ hist = None

NextReopen ==
    \/ AddStyledLine(ReopenLines)
    \/ SearchKeyEvent(ReopenKeys)

SpecReopen == InitReopen /\ [][NextReopen]_vars

\* C35: whenever the search is active (mode Input or Open) and search_term is
\* non-empty, search_matches is the full scan of the current buffer for
\* search_term; also after the search is closed with its term kept, lines are
\* appended and the search is opened again.
C35_MatchesAreCurrent ==
    (search_is_active(w) /\ w.search_term # <<>> /\ ~w.panicked)
        => w.search_matches = find_all_matches(w).search_matches

\* C35 without a reopening: search_matches is the full scan of the buffer as
\* long as the search has been active since the term was last set.
C35_MatchesAreCurrentWhileOpen ==
    [][(/\ search_is_active(w)
        /\ w.search_term # <<>>
        /\ w.search_matches = find_all_matches(w).search_matches
        /\ search_is_active(w')
        /\ w'.search_term # <<>>
        /\ ~w'.panicked)
           => w'.search_matches = find_all_matches(w').search_matches]_vars


\* C36: in every reachable state drag_scroll_timer is Some exactly when
\* drag_direction is not None, and drag_direction is not None only while a
\* selection drag is in progress (mouse_is_down); so a mouse press that
\* follows the clearing of the selection during a drag (Esc, eviction of a
\* selected line, clear()) never leaves the widget drag-scrolling.
C36_DragStateConsistent ==
    ~w.panicked
        => /\ (w.drag_scroll_timer # None) <=> (w.drag_direction # "None")
           /\ w.drag_direction # "None" => w.mouse_is_down

\* C36, the timer alone: drag_scroll_timer is Some exactly when drag_direction
\* is not None.
C36_TimerFollowsDirection ==
    ~w.panicked => ((w.drag_scroll_timer # None) <=> (w.drag_direction # "None"))


(***************************************************************************)
(* TabbedScrollbox: tabs maps a tab's name to its ScrollbackWidget,        *)
(* tab_order lists the names in the order of the tab bar.                  *)
(***************************************************************************)
TabbedScrollboxNew ==
    [ tabs |-> [n \in {} |-> NewWidget(1000, 0)],
      tab_order |-> <<>>,
      tab_titles |-> [n \in {} |-> ""],
      selected_tab |-> 0,
      wrap_indent |-> 0,
      wrap_lines |-> FALSE,
      rendered_tab_titles |-> <<>>,
      titles_cache_dirty |-> TRUE,
      redraw_requested |-> TRUE,
      is_focused |-> FALSE ]

\* fn request_redraw(&mut self) {}
tabbed_request_redraw(t) == t

\* the name of the selected tab, if tab_order has one at selected_tab
current_name(t) ==
    IF t.selected_tab < Len(t.tab_order) /\ t.tab_order[t.selected_tab + 1] \in DOMAIN t.tabs
    THEN Some(t.tab_order[t.selected_tab + 1])
    ELSE None

current_scrollbox_ref(t) ==
    IF current_name(t) = None THEN None ELSE Some(t.tabs[current_name(t)[1]])

\* the container with sb stored as the selected tab's widget
current_scrollbox_mut(t, sb) ==
    IF current_name(t) = None THEN t ELSE [t EXCEPT !.tabs[current_name(t)[1]] = sb]

sync_child_state(t) ==
    IF current_scrollbox_ref(t) = None THEN t
    ELSE current_scrollbox_mut(
             t, request_redraw(apply_focus(current_scrollbox_ref(t)[1], t.is_focused)))

\* the child add_tab builds
NewTab(t) ==
    set_wrap_lines(
        set_wrap_indent(request_redraw(NewWidget(1000, t.wrap_indent)), t.wrap_indent),
        t.wrap_lines)

add_tab(t, name, title) ==
    tabbed_request_redraw(
        [t EXCEPT !.tab_titles = IF title # "" THEN (name :> title) @@ @ ELSE @,
                  !.tabs = (name :> NewTab(t)) @@ @,
                  !.tab_order = Append(@, name),
                  !.titles_cache_dirty = TRUE])

\* tab_order.iter().position(|n| n == name)
position(tab_order, name) ==
    IF \E i \in 1..Len(tab_order) : tab_order[i] = name
    THEN Some((CHOOSE i \in 1..Len(tab_order) :
                   /\ tab_order[i] = name
                   /\ \A j \in 1..(i - 1) : tab_order[j] # name) - 1)
    ELSE None

select_tab_index(t, idx) ==
    IF idx < Len(t.tab_order)
    THEN tabbed_request_redraw(sync_child_state([t EXCEPT !.selected_tab = idx]))
    ELSE t

select_tab(t, name) ==
    IF position(t.tab_order, name) # None
    THEN tabbed_request_redraw(
             sync_child_state([t EXCEPT !.selected_tab = position(t.tab_order, name)[1]]))
    ELSE t

next_tab(t) ==
    IF t.tab_order # <<>>
    THEN tabbed_request_redraw(sync_child_state(
             [t EXCEPT !.selected_tab = (t.selected_tab + 1) % Len(t.tab_order)]))
    ELSE t

prev_tab(t) ==
    IF t.tab_order # <<>>
    THEN tabbed_request_redraw(sync_child_state(
             [t EXCEPT !.selected_tab = IF t.selected_tab >= 1 THEN t.selected_tab - 1
                                        ELSE Len(t.tab_order) - 1]))
    ELSE t

tabbed_focus(t) ==
    tabbed_request_redraw(sync_child_state([t EXCEPT !.is_focused = TRUE]))

tabbed_unfocus(t) ==
    tabbed_request_redraw(sync_child_state([t EXCEPT !.is_focused = FALSE]))

tabbed_need_draw(t) ==
    \/ t.redraw_requested
    \/ IF current_scrollbox_ref(t) = None THEN FALSE
       ELSE need_draw(current_scrollbox_ref(t)[1])

\* the titles of the tab bar: a tab's title, or its name when it has none
TitlesOf(t) ==
    [i \in 1..Len(t.tab_order) |->
        IF t.tab_order[i] \in DOMAIN t.tab_titles THEN t.tab_titles[t.tab_order[i]]
        ELSE t.tab_order[i]]

tabbed_draw(t, area) ==
    IF t.tab_order = <<>> THEN t
    ELSE [current_scrollbox_mut(
              t, IF current_scrollbox_ref(t) = None THEN None
                 ELSE draw(current_scrollbox_ref(t)[1], area))
          EXCEPT !.rendered_tab_titles = IF t.titles_cache_dirty THEN TitlesOf(t) ELSE @,
                 !.titles_cache_dirty = FALSE,
                 !.redraw_requested = FALSE]

(***************************************************************************)
(* SpecTabs: a TabbedScrollbox given up to MaxTabs tabs under two names,   *)
(* with tabs selected by name, by index and in turn, the container focused *)
(* and unfocused, and drawn.  prev is the container before the operation.  *)
(***************************************************************************)
MaxTabs == 3

TabNames == {"a", "b"}

TabTitles == {"", "t"}

TabStep(name, arg, t1) ==
    /\ w' = t1
    /\ prev' = w
    /\ op' = [name |-> name, arg |-> arg]
    /\ UNCHANGED hist

InitTabs ==
    /\ w = TabbedScrollboxNew
    /\ prev = w
    /\ op = NoOp
    /\ hist = None

AddTab ==
    \E name \in TabNames, title \in TabTitles :
        /\ Len(w.tab_order) < MaxTabs
        /\ TabStep("add_tab", <<name, title>>, add_tab(w, name, title))

SelectTab == \E name \in TabNames : TabStep("select_tab", name, select_tab(w, name))

SelectTabIndex ==
    \E idx \in 0..MaxTabs : TabStep("select_tab_index", idx, select_tab_index(w, idx))

NextTab == TabStep("next_tab", <<>>, next_tab(w))

PrevTab == TabStep("prev_tab", <<>>, prev_tab(w))

TabbedFocus == TabStep("focus", <<>>, tabbed_focus(w))

TabbedUnfocus == TabStep("unfocus", <<>>, tabbed_unfocus(w))

TabbedDraw == TabStep("draw", AreaOf(4, 1), tabbed_draw(w, AreaOf(4, 1)))

NextTabs ==
    \/ AddTab
    \/ SelectTab
    \/ SelectTabIndex
    \/ NextTab
    \/ PrevTab
    \/ TabbedFocus
    \/ TabbedUnfocus
    \/ TabbedDraw

SpecTabs == InitTabs /\ [][NextTabs]_vars

\* the names of the tabs whose widget is focused
FocusedTabs(t) == {n \in DOMAIN t.tabs : t.tabs[n].is_focused}

\* C37: at most one child ScrollbackWidget is focused at any time, and a
\* child is focused only if it belongs to the selected tab and the container
\* is focused; after every sequence of focus, unfocus, add_tab, select_tab,
\* select_tab_index, next_tab and prev_tab.
C37_OneFocusedChild ==
    /\ Cardinality(FocusedTabs(w)) <= 1
    /\ \A n \in FocusedTabs(w) : w.is_focused /\ current_name(w) = Some(n)

\* the last operation ran sync_child_state
Synced ==
    \/ op.name \in {"next_tab", "prev_tab", "focus", "unfocus"}
    \/ op.name = "select_tab" /\ position(w.tab_order, op.arg) # None
    \/ op.name = "select_tab_index" /\ op.arg < Len(w.tab_order)

\* C37 for the selected tab: after an operation that selects a tab or moves
\* the focus, the selected tab's child is focused exactly when the container
\* is.
C37_SelectedChildFollowsFocus ==
    (Synced /\ current_name(w) # None)
        => (w.tabs[current_name(w)[1]].is_focused <=> w.is_focused)

PaintOps ==
    {"add_tab", "select_tab", "select_tab_index", "next_tab", "prev_tab", "focus",
     "unfocus"}

\* what the frame shows of the container: the tab bar, the selected tab and
\* the focus
Painted(t) == <<TitlesOf(t), t.selected_tab, t.is_focused>>

\* C38: after an operation that changes what is painted (add_tab, select_tab,
\* select_tab_index, next_tab, prev_tab, focus, unfocus) need_draw() is true,
\* and it stays true until the next draw; also when the widget has been drawn
\* before and the operation leaves the selected tab's content alone.
C38_NeedDrawAfterChange ==
    [][/\ (op'.name \in PaintOps /\ Painted(w') # Painted(w)) => tabbed_need_draw(w')
       /\ (tabbed_need_draw(w) /\ op'.name # "draw") => tabbed_need_draw(w')]_vars

\* C38 for the operations that run sync_child_state, and for the time until
\* the draw: need_draw() is true after a tab is selected or the focus moves
\* while a tab is selected, and no operation but draw makes it false.
C38_NeedDrawAfterSync ==
    [][/\ (op'.name \in PaintOps \ {"add_tab"}
           /\ Painted(w') # Painted(w)
           /\ current_name(w') # None) => tabbed_need_draw(w')
       /\ (tabbed_need_draw(w) /\ op'.name # "draw") => tabbed_need_draw(w')]_vars


(***************************************************************************)
(* The input backend.  The backend task owns key_buffer, mouse_buffer and  *)
(* backspace_cnt and sends packets (keys, mouses) through the unbounded    *)
(* channel key_rx; the application drains the channel with flush_events.   *)
(* A key is its KeyCode; mouse events are counted, not told apart, and no  *)
(* wheel event arrives (scroll_delta stays 0).                             *)
(***************************************************************************)
\* InputBackendOpts::default()
OptsKeyBuffer == 5

OptsMouseBuffer == 8

OptsFlushCap == 512

InputHandlerNew ==
    [ key_buffer |-> <<>>,
      mouse_buffer |-> 0,
      backspace_cnt |-> 0,
      key_rx |-> <<>> ]

\* InputBackend::flush: the buffers sent in one packet
flush(b) ==
    IF b.key_buffer = <<>> /\ b.mouse_buffer = 0 THEN b
    ELSE [b EXCEPT !.key_rx = Append(@, [keys |-> b.key_buffer, mouses |-> b.mouse_buffer]),
                   !.key_buffer = <<>>,
                   !.mouse_buffer = 0]

RECURSIVE push_backspaces(_)
push_backspaces(b) ==
    IF b.backspace_cnt = 0 THEN b
    ELSE Bind([b EXCEPT !.key_buffer = Append(@, "Backspace"), !.backspace_cnt = @ - 1],
              LAMBDA b1 :
                  IF Len(b1.key_buffer) >= OptsKeyBuffer THEN b1 ELSE push_backspaces(b1))

\* run: a key press read from the terminal
run_key(b, code) ==
    IF code = "Backspace" THEN [b EXCEPT !.backspace_cnt = @ + 1]
    ELSE Bind([(IF b.backspace_cnt > 0 THEN push_backspaces(b) ELSE b)
               EXCEPT !.key_buffer = Append(@, code)],
              LAMBDA b1 : IF Len(b1.key_buffer) >= OptsKeyBuffer THEN flush(b1) ELSE b1)

\* run: a click or a move read from the terminal
run_mouse(b) ==
    Bind([b EXCEPT !.mouse_buffer = @ + 1],
         LAMBDA b1 : IF b1.mouse_buffer >= OptsMouseBuffer THEN flush(b1) ELSE b1)

\* run: the interval's tick
run_tick(b) == flush(IF b.backspace_cnt > 0 THEN push_backspaces(b) ELSE b)

\* InputHandler::flush_events: <<packets left in the channel, key events,
\* number of mouse events>>
RECURSIVE flush_events_from(_, _, _)
flush_events_from(key_rx, key_events, mouse_events) ==
    IF key_rx = <<>> THEN <<key_rx, key_events, mouse_events>>
    ELSE IF Len(key_events \o key_rx[1].keys) + mouse_events + key_rx[1].mouses > OptsFlushCap
    THEN <<Tail(key_rx), key_events \o key_rx[1].keys, mouse_events + key_rx[1].mouses>>
    ELSE flush_events_from(Tail(key_rx), key_events \o key_rx[1].keys,
                           mouse_events + key_rx[1].mouses)

flush_events(h) == flush_events_from(h.key_rx, <<>>, 0)

(***************************************************************************)
(* SpecInput: up to MaxKeys key presses ("x" and Backspace) and up to      *)
(* MaxMouse mouse events arrive in any order between ticks, and the        *)
(* application flushes at any time.  hist holds the keys as the terminal   *)
(* produced them and as the application received them.                     *)
(***************************************************************************)
MaxKeys == 7

MaxMouse == 1

InputKeys == {"x", "Backspace"}

InputStep(name, arg, b1) ==
    /\ w' = b1
    /\ UNCHANGED prev
    /\ op' = [name |-> name, arg |-> arg]

InitInput ==
    /\ w = InputHandlerNew
    /\ prev = None
    /\ op = NoOp
    /\ hist = [produced |-> <<>>, delivered |-> <<>>, mouse |-> 0]

KeyArrives ==
    \E code \in InputKeys :
        /\ Len(hist.produced) < MaxKeys
        /\ InputStep("key", code, run_key(w, code))
        /\ hist' = [hist EXCEPT !.produced = Append(@, code)]

MouseArrives ==
    /\ hist.mouse < MaxMouse
    /\ InputStep("mouse", <<>>, run_mouse(w))
    /\ hist' = [hist EXCEPT !.mouse = @ + 1]

IntervalTick ==
    /\ InputStep("tick", <<>>, run_tick(w))
    /\ UNCHANGED hist

FlushEvents ==
    /\ InputStep("flush_events", <<>>, [w EXCEPT !.key_rx = flush_events(w)[1]])
    /\ hist' = [hist EXCEPT !.delivered = @ \o flush_events(w)[2]]

NextInput ==
    \/ KeyArrives
    \/ MouseArrives
    \/ IntervalTick
    \/ FlushEvents

SpecInput == InitInput /\ [][NextInput]_vars

IsPrefix(p, q) == Len(p) <= Len(q) /\ SubSeq(q, 1, Len(p)) = p

\* nothing is held by the backend or the channel
Drained(b) == b.key_buffer = <<>> /\ b.backspace_cnt = 0 /\ b.key_rx = <<>>

\* C39: key presses reach the application exactly once and in the order in
\* which the terminal produced them, the Backspace presses that the backend
\* counts and re-materialises included: what the application has received is
\* a prefix of what the terminal produced, and all of it once the backend and
\* the channel hold nothing; no later key comes before an earlier Backspace.
C39_KeysInOrder ==
    /\ IsPrefix(hist.delivered, hist.produced)
    /\ Drained(w) => hist.delivered = hist.produced

\* C39 without the order: once the backend and the channel hold nothing, the
\* application has received as many presses of each key as the terminal
\* produced.
C39_KeysExactlyOnce ==
    Drained(w)
        => \A code \in InputKeys :
               Cardinality({i \in 1..Len(hist.delivered) : hist.delivered[i] = code})
                   = Cardinality({i \in 1..Len(hist.produced) : hist.produced[i] = code})


\* the messages a process_messages call on tracer t takes from its queue
Consumed(t) == SubSeq(t.rx, 1, Min(Len(t.rx), MessagesPerFrame))

\* the last operation called TracerWidget::process_messages
Preprocessed(name) == name \in {"TracerWidget::preprocess", "ConsoleWidget::preprocess"}

\* C40: process_messages handles every queued message without fault for any
\* list of target tabs: every message it takes from the queue is applied, a
\* message addressed to no tab included, which adds no line and lets the
\* messages queued behind it be processed.
C40_EveryMessageHandled ==
    /\ ~w.tracer_widget.panicked
    /\ Preprocessed(op.name) =>
           w.tracer_widget.applied
               = prev.tracer_widget.applied \o Ids(Consumed(prev.tracer_widget))

\* C40 for messages with at least one target tab: a process_messages call
\* whose messages all name a tab applies every one of them without fault, and
\* each adds one entry to every tab it names.
C40_NamedTabsHandled ==
    [][(/\ Preprocessed(op'.name)
        /\ \A i \in 1..Len(Consumed(w.tracer_widget)) :
               Consumed(w.tracer_widget)[i].tab_names # <<>>)
           => /\ ~w'.tracer_widget.panicked
              /\ w'.tracer_widget.applied
                     = w.tracer_widget.applied \o Ids(Consumed(w.tracer_widget))
              /\ \A i \in 1..Len(Consumed(w.tracer_widget)) :
                     LET m == Consumed(w.tracer_widget)[i]
                     IN (m.type # "ClearTab"
                         /\ \A j \in (i + 1)..Len(Consumed(w.tracer_widget)) :
                                Consumed(w.tracer_widget)[j].type # "ClearTab")
                            => \A k \in 1..Len(m.tab_names) :
                                   \E e \in 1..Len(w'.tracer_widget.logs) :
                                       w'.tracer_widget.logs[e] = <<m.tab_names[k], m.id>>]_vars

=============================================================================
